---- MODULE Spec2Model ----
(***************************************************************************)
(* Model of the AWS-AutoML-Lite inference path: the prediction router      *)
(* (backend/api/routers/predict.py), its in-memory model cache, and the    *)
(* job records (DynamoDB items) the router reads.                          *)
(*                                                                         *)
(* Python values that may be a number or a string are tagged records, so   *)
(* that str() and float() are real conversions.  Floating point values     *)
(* are integers (probabilities are percentages).                           *)
(***************************************************************************)
EXTENDS Integers, Sequences, FiniteSets, TLC

\* predict.py:33
MAX_CACHED_MODELS == 3

\* Largest number a numeric string of the request may denote.
MaxParse == 30

\* Number of concurrent request workers of SpecConc.
NumWorkers == 2

\* SpecColumn: the columns have up to MaxRows rows (and the lengths of
\* LongLens), up to MaxDistinct distinct values and up to MaxNaN absent ones.
MaxRows == 10
MaxDistinct == 12
MaxNaN == 1

\* SpecUrl: the clock is moved at most MaxTicks times.
MaxTicks == 2

-----------------------------------------------------------------------------
(* Python values *)

Num(n) == [t |-> "num", n |-> n, s |-> ""]
Str(s) == [t |-> "str", n |-> 0, s |-> s]
NoneV == [t |-> "none", n |-> 0, s |-> ""]

EmptyMap == [k \in {} |-> 0]

\* str(value): the decimal text of a number, a string unchanged.
PyStr(v) == IF v.t = "num" THEN ToString(v.n) ELSE v.s

\* isinstance(value, (int, float))
IsNumber(v) == v.t = "num"

\* float(value) of a string: succeeds when the text denotes a number.
CanFloat(v) == v.t = "str" /\ \E n \in 0..MaxParse : ToString(n) = v.s
PyFloat(v) == CHOOSE n \in 0..MaxParse : ToString(n) = v.s

-----------------------------------------------------------------------------
(* Job records as the training container writes them *)

CityCodes == ("NYC" :> 0) @@ ("LA" :> 1)
CityCodes2 == ("LA" :> 0) @@ ("7" :> 1)
YesNo == ("0" :> "no") @@ ("1" :> "yes")

\* The preprocessing_info that update_job_completion stores: only the keys
\* it sets are present; an empty dictionary is stored as None.
PreprocessingInfo(dropped_columns, feature_columns, feature_metadata) ==
    LET keys == (IF Len(dropped_columns) > 0 THEN {"dropped_columns"} ELSE {})
                \cup (IF Len(feature_columns) > 0 THEN {"feature_columns"} ELSE {})
                \cup (IF feature_metadata.given
                      THEN {"feature_types", "categorical_mappings"}
                           \cup (IF DOMAIN feature_metadata.target_mapping # {}
                                 THEN {"target_mapping"} ELSE {})
                      ELSE {})
    IN [is_none |-> keys = {},
        keys |-> keys,
        dropped_columns |-> dropped_columns,
        feature_columns |-> feature_columns,
        categorical_mappings |-> IF feature_metadata.given
                                 THEN feature_metadata.categorical_mappings
                                 ELSE EmptyMap,
        target_mapping |-> IF feature_metadata.given
                           THEN feature_metadata.target_mapping
                           ELSE EmptyMap]

Metadata(cm, tm) == [given |-> TRUE, categorical_mappings |-> cm, target_mapping |-> tm]
NoMetadata == [given |-> FALSE, categorical_mappings |-> EmptyMap, target_mapping |-> EmptyMap]

\* An S3 path f"s3://{bucket}/{key}" as its segments between "/"; key is
\* the sequence of the key's segments.
S3Path(bucket, key) == <<"s3:", "", bucket>> \o key

\* The buckets of the settings
BucketDatasets == "automl-lite-dev-datasets"
BucketModels == "automl-lite-dev-models"
BucketReports == "automl-lite-dev-reports"

\* The keys train.py uploads a job's artifacts under
ModelKey(job_id) == <<"models", job_id, "model.pkl">>
OnnxKey(job_id) == <<"models", job_id, "model.onnx">>
EdaReportKey(job_id) == <<"reports", job_id, "eda_report.html">>
TrainingReportKey(job_id) == <<"reports", job_id, "training_report.html">>

\* The key request_upload_url makes for an uploaded file
DatasetKey(dataset_id, filename) == <<"datasets", dataset_id, filename>>

\* The dataset a job was started for (TrainRequest.dataset_id)
DatasetOf(job_id) ==
    IF job_id \in {"j1", "j2"} THEN "d1"
    ELSE IF job_id = "j8" THEN "d8"
    ELSE IF job_id = "j9" THEN "d9"
    ELSE IF job_id = "j10" THEN "d10"
    ELSE "d3"

\* The item of a completed job: update_job_completion's SET, on top of the
\* item create_job put (deployed = False).  An attribute the item does not
\* have is "" or <<>>.
CompletedJob(job_id, problem_type, dropped, feature_columns, feature_metadata, onnx_ok, deployed) ==
    [job_id |-> job_id,
     dataset_id |-> DatasetOf(job_id),
     status |-> "completed",
     deployed |-> deployed,
     problem_type |-> problem_type,
     model_path |-> S3Path(BucketModels, ModelKey(job_id)),
     onnx_model_path |-> IF onnx_ok THEN job_id ELSE "",
     report_path |-> S3Path(BucketReports, EdaReportKey(job_id)),
     eda_report_path |-> S3Path(BucketReports, EdaReportKey(job_id)),
     training_report_path |-> S3Path(BucketReports, TrainingReportKey(job_id)),
     preprocessing_info |-> PreprocessingInfo(dropped, feature_columns, feature_metadata)]

\* The item start_training creates (status pending), and what the
\* container's update_job_status makes of it (running, failed).
CreatedJob(job_id, status) ==
    [job_id |-> job_id,
     dataset_id |-> DatasetOf(job_id),
     status |-> status,
     deployed |-> FALSE,
     problem_type |-> "",
     model_path |-> <<>>,
     onnx_model_path |-> "",
     report_path |-> <<>>,
     eda_report_path |-> <<>>,
     training_report_path |-> <<>>,
     preprocessing_info |-> PreprocessingInfo(<<>>, <<>>, NoMetadata)]

\* The jobs table as the API process finds it: the results of earlier
\* training runs.  "j0" was never created (or was deleted); "j8" is being
\* trained, the training of "j9" failed, the ONNX export of "j10" failed;
\* the item of "j11" has a mapping for a column that is no feature column.
JobIds == {"j0", "j1", "j2", "j3", "j4", "j5", "j6", "j7", "j8", "j9", "j10", "j11"}

JobsTable ==
    ("j1" :> CompletedJob("j1", "classification", <<"customer_id">>, <<"age", "city">>,
                          Metadata("city" :> CityCodes, YesNo), TRUE, TRUE))
 @@ ("j2" :> CompletedJob("j2", "regression", <<>>, <<"city", "age">>,
                          Metadata("city" :> CityCodes2, EmptyMap), TRUE, TRUE))
 @@ ("j3" :> CompletedJob("j3", "classification", <<>>, <<"age">>,
                          Metadata(EmptyMap, EmptyMap), TRUE, TRUE))
 @@ ("j4" :> CompletedJob("j4", "regression", <<"row_id">>, <<"age">>,
                          Metadata(EmptyMap, EmptyMap), TRUE, TRUE))
 @@ ("j5" :> CompletedJob("j5", "regression", <<"row_id">>, <<>>,
                          Metadata(EmptyMap, EmptyMap), TRUE, TRUE))
 @@ ("j6" :> CompletedJob("j6", "regression", <<>>, <<>>, NoMetadata, TRUE, TRUE))
 @@ ("j7" :> CompletedJob("j7", "classification", <<>>, <<"age">>,
                          Metadata(EmptyMap, EmptyMap), TRUE, FALSE))
 @@ ("j8" :> CreatedJob("j8", "running"))
 @@ ("j9" :> CreatedJob("j9", "failed"))
 @@ ("j10" :> CompletedJob("j10", "regression", <<>>, <<"age">>,
                           Metadata(EmptyMap, EmptyMap), FALSE, FALSE))
 @@ ("j11" :> CompletedJob("j11", "regression", <<>>, <<"age">>,
                           Metadata("city" :> CityCodes, EmptyMap), TRUE, TRUE))

-----------------------------------------------------------------------------
(* The compiled model (ONNX Runtime session): external, deterministic *)

\* session.get_inputs()[0].type of the model stored at a path
InputType(path) == IF path = "j2" THEN "tensor(double)" ELSE "tensor(float)"

\* Shape of the second output: a dict (LightGBM), an array, or no second output
ProbShape(path) == IF path = "j1" THEN "dict" ELSE IF path = "j3" THEN "array" ELSE "none"

\* ort.InferenceSession(tmp_path): the handle of the model at onnx_path;
\* by tells apart the handles of separate loads.
InferenceSession(onnx_path, by) ==
    [model |-> onnx_path, input_type |-> InputType(onnx_path), by |-> by]

\* Each model computes its own function of the row.
ModelBias(path) ==
    IF path = "j1" THEN 0 ELSE IF path = "j2" THEN 1 ELSE IF path = "j3" THEN 2 ELSE 3

RECURSIVE Weighted(_, _)
Weighted(vector, i) ==
    IF i > Len(vector) THEN 0 ELSE i * vector[i] + Weighted(vector, i + 1)

\* session.run: the outputs for one input row.  The model is a fixed
\* function of the row that depends on the position of every element.
SessionRun(session, input_data) ==
    LET score == Weighted(input_data.row, 1) + ModelBias(session.model)
        code == score % 2
    IN [label |-> code,
        value |-> score,
        n_outputs |-> IF ProbShape(session.model) = "none" THEN 1 ELSE 2,
        probs |-> [c \in 0..1 |-> IF c = code THEN 70 ELSE 30]]

-----------------------------------------------------------------------------
(* predict.py *)

\* Mutant of CacheInsert: the dictionary is rebuilt with the new entry alone.
CacheInsertAlone(cache, job_id, session, onnx_path) ==
    [k \in {job_id} |-> [session |-> session, path |-> onnx_path]]

\* Mutant of CacheInsert: every key ends up bound to the newest session.
CacheInsertShared(cache, job_id, session, onnx_path) ==
    [k \in DOMAIN cache \cup {job_id} |-> [session |-> session, path |-> onnx_path]]

\* _model_cache[job_id] = (session, {'path': onnx_path})
CacheInsert(cache, job_id, session, onnx_path) ==
    [k \in DOMAIN cache \cup {job_id} |->
        IF k = job_id THEN [session |-> session, path |-> onnx_path] ELSE cache[k]]

\* _get_cached_model: the session of job_id, loaded on a miss.  load_ok is
\* whether the download and the compilation succeed.
_get_cached_model(cache, job_id, onnx_path, load_ok) ==
    IF job_id \in DOMAIN cache
    THEN [ok |-> TRUE, session |-> cache[job_id].session, cache |-> cache,
          loader_invoked |-> FALSE]
    ELSE IF ~load_ok
    THEN [ok |-> FALSE, session |-> InferenceSession("", 0), cache |-> cache,
          loader_invoked |-> TRUE]
    ELSE LET session == InferenceSession(onnx_path, 0)
         IN [ok |-> TRUE, session |-> session,
             cache |-> CacheInsert(cache, job_id, session, onnx_path),
             loader_invoked |-> TRUE]

\* Mutant of _encode_categorical_features: an unknown category is left as it is.
EncodeKnownOnly(features, categorical_mappings) ==
    [col \in DOMAIN features |->
        IF col \in DOMAIN categorical_mappings
           /\ PyStr(features[col]) \in DOMAIN categorical_mappings[col]
        THEN Num(categorical_mappings[col][PyStr(features[col])])
        ELSE features[col]]

\* _encode_categorical_features: a copy of features with every column of
\* categorical_mappings replaced by its code, -1 for an unknown category.
_encode_categorical_features(features, categorical_mappings) ==
    [col \in DOMAIN features |->
        IF col \in DOMAIN categorical_mappings
        THEN LET original_value == PyStr(features[col])
                 mapping == categorical_mappings[col]
             IN IF original_value \in DOMAIN mapping
                THEN Num(mapping[original_value])
                ELSE Num(-1)
        ELSE features[col]]

\* Mutant of FeaturesAfterEncode: the codes are assigned into the caller's
\* dictionary itself.
FeaturesAfterEncodeInPlace(features, categorical_mappings) ==
    _encode_categorical_features(features, categorical_mappings)

\* The caller's dictionary after _encode_categorical_features: the loop
\* assigns into encoded, which line 110 made a copy, so features keeps
\* its items.
FeaturesAfterEncode(features, categorical_mappings) == features

\* Mutant of Coerce: a value that is not a number becomes 0.
CoerceLenient(value) ==
    IF IsNumber(value) THEN [ok |-> TRUE, n |-> value.n]
    ELSE IF CanFloat(value) THEN [ok |-> TRUE, n |-> PyFloat(value)]
    ELSE [ok |-> TRUE, n |-> 0]

\* Lines 163-167 of _prepare_input: a number is kept, anything else goes
\* through float(), whose ValueError or TypeError fails the request.
Coerce(value) ==
    IF IsNumber(value) THEN [ok |-> TRUE, n |-> value.n]
    ELSE IF CanFloat(value) THEN [ok |-> TRUE, n |-> PyFloat(value)]
    ELSE [ok |-> FALSE, n |-> 0]

\* Mutant of BuildVector: each value is put in front of the vector so far.
RECURSIVE BuildVectorPrepend(_, _, _, _)
BuildVectorPrepend(features, feature_columns, i, acc) ==
    IF i > Len(feature_columns)
    THEN [ok |-> TRUE, row |-> acc, error |-> "", column |-> "", value |-> NoneV]
    ELSE LET col == feature_columns[i]
         IN IF col \notin DOMAIN features
            THEN [ok |-> FALSE, row |-> acc, error |-> "Missing required feature",
                  column |-> col, value |-> NoneV]
            ELSE LET value == Coerce(features[col])
                 IN IF value.ok
                    THEN BuildVectorPrepend(features, feature_columns, i + 1,
                                            <<value.n>> \o acc)
                    ELSE [ok |-> FALSE, row |-> acc, error |-> "Cannot convert to number",
                          column |-> col, value |-> features[col]]

\* The loop of _prepare_input over feature_columns from position i on:
\* the vector so far is acc; the first column that fails ends it.
RECURSIVE BuildVector(_, _, _, _)
BuildVector(features, feature_columns, i, acc) ==
    IF i > Len(feature_columns)
    THEN [ok |-> TRUE, row |-> acc, error |-> "", column |-> "", value |-> NoneV]
    ELSE LET col == feature_columns[i]
         IN IF col \notin DOMAIN features
            THEN [ok |-> FALSE, row |-> acc, error |-> "Missing required feature",
                  column |-> col, value |-> NoneV]
            ELSE LET value == Coerce(features[col])
                 IN IF value.ok
                    THEN BuildVector(features, feature_columns, i + 1, Append(acc, value.n))
                    ELSE [ok |-> FALSE, row |-> acc, error |-> "Cannot convert to number",
                          column |-> col, value |-> features[col]]

\* _prepare_input
_prepare_input(features, feature_columns, session, preprocessing_info) ==
    LET encodes == ~preprocessing_info.is_none
                      /\ "categorical_mappings" \in preprocessing_info.keys
                      /\ DOMAIN preprocessing_info.categorical_mappings # {}
        encoded == IF encodes
                   THEN _encode_categorical_features(features,
                            preprocessing_info.categorical_mappings)
                   ELSE features
        built == BuildVector(encoded, feature_columns, 1, <<>>)
    IN [ok |-> built.ok, row |-> built.row, error |-> built.error,
        column |-> built.column, value |-> built.value,
        raw_features |-> IF encodes
                         THEN FeaturesAfterEncode(features,
                                  preprocessing_info.categorical_mappings)
                         ELSE features,
        dtype |-> IF session.input_type = "tensor(float)" THEN "float32" ELSE "float64"]

\* A response of POST /predict/{job_id}: an HTTPException (status, detail
\* and what the detail text names) or a PredictionResponse (status 200).
\* inference_time_ms and model_type are left out.
ErrorResponse(job_id, status, detail, missing, column, value) ==
    [job_id |-> job_id, status |-> status, detail |-> detail,
     missing |-> missing, column |-> column, value |-> value,
     prediction |-> NoneV, has_probability |-> FALSE, probability |-> 0,
     probabilities |-> EmptyMap]

PredictionResponse(job_id, prediction, has_probability, probability, probabilities) ==
    [job_id |-> job_id, status |-> 200, detail |-> "",
     missing |-> <<>>, column |-> "", value |-> NoneV,
     prediction |-> prediction, has_probability |-> has_probability,
     probability |-> probability, probabilities |-> probabilities]

\* What a request did besides answering: whether it invoked the model
\* loader, whether it ran the model, and the input it assembled.
Trace(loader_invoked, executed, row, dtype) ==
    [loader_invoked |-> loader_invoked, executed |-> executed, row |-> row, dtype |-> dtype]

NoTrace == Trace(FALSE, FALSE, <<>>, "")

\* Mutant of MissingFeatures: the features are not validated.
MissingFeaturesUnchecked(feature_columns, features) == <<>>

\* Mutant of MissingFeatures: only the first missing name is reported.
MissingFeaturesFirst(feature_columns, features) ==
    LET all == SelectSeq(feature_columns, LAMBDA col : col \notin DOMAIN features)
    IN IF Len(all) = 0 THEN <<>> ELSE <<all[1]>>

\* [col for col in feature_columns if col not in request.features]
MissingFeatures(feature_columns, features) ==
    SelectSeq(feature_columns, LAMBDA col : col \notin DOMAIN features)

\* Lines 254-297 of make_prediction: the response for the model's outputs.
ParseResults(job, outputs) ==
    IF job.problem_type = "regression"
    THEN PredictionResponse(job.job_id, Num(outputs.value), FALSE, 0, EmptyMap)
    ELSE IF outputs.n_outputs > 1
    THEN PredictionResponse(job.job_id, Num(outputs.label), TRUE,
             IF outputs.probs[0] >= outputs.probs[1]
             THEN outputs.probs[0] ELSE outputs.probs[1],
             (ToString(0) :> outputs.probs[0]) @@ (ToString(1) :> outputs.probs[1]))
    ELSE PredictionResponse(job.job_id, Num(outputs.label), FALSE, 0, EmptyMap)

\* make_prediction as a function of the jobs table, the cache and the
\* request: the response, the cache afterwards, the trace and the
\* request's features dictionary afterwards.
MakePrediction(table, cache, job_id, features, load_ok) ==
    LET Fail(status, detail, missing) ==
            [response |-> ErrorResponse(job_id, status, detail, missing, "", NoneV),
             cache |-> cache, trace |-> NoTrace, got_session |-> FALSE,
             raw_features |-> features]
    IN IF job_id \notin DOMAIN table
       THEN Fail(404, "Job not found", <<>>)
       ELSE LET job == table[job_id]
            IN IF ~job.deployed
               THEN Fail(400, "Model is not deployed", <<>>)
               ELSE IF job.onnx_model_path = ""
               THEN Fail(400, "No ONNX model available for this job", <<>>)
               ELSE IF job.preprocessing_info.is_none
               THEN Fail(500, "Prediction error: 'NoneType' object has no attribute 'get'", <<>>)
               ELSE LET preprocessing_info == job.preprocessing_info
                        feature_columns ==
                            IF "feature_columns" \in preprocessing_info.keys
                            THEN preprocessing_info.feature_columns ELSE <<>>
                        missing_features == MissingFeatures(feature_columns, features)
                    IN IF Len(feature_columns) = 0
                       THEN Fail(500, "Model metadata missing feature columns information", <<>>)
                       ELSE IF Len(missing_features) > 0
                       THEN Fail(400, "Missing required features", missing_features)
                       ELSE LET got == _get_cached_model(cache, job_id,
                                                         job.onnx_model_path, load_ok)
                            IN IF ~got.ok
                               THEN [response |-> ErrorResponse(job_id, 500,
                                         "Prediction error: Error downloading file",
                                         <<>>, "", NoneV),
                                     cache |-> got.cache,
                                     trace |-> Trace(got.loader_invoked, FALSE, <<>>, ""),
                                     got_session |-> FALSE,
                                     raw_features |-> features]
                               ELSE LET input_data == _prepare_input(features,
                                            feature_columns, got.session, preprocessing_info)
                                    IN IF ~input_data.ok
                                       THEN [response |-> ErrorResponse(job_id, 400,
                                                 input_data.error, <<>>,
                                                 input_data.column, input_data.value),
                                             cache |-> got.cache,
                                             trace |-> Trace(got.loader_invoked, FALSE,
                                                             <<>>, ""),
                                             got_session |-> TRUE,
                                             raw_features |-> input_data.raw_features]
                                       ELSE [response |-> ParseResults(job,
                                                 SessionRun(got.session, input_data)),
                                             cache |-> got.cache,
                                             trace |-> Trace(got.loader_invoked, TRUE,
                                                 input_data.row, input_data.dtype),
                                             got_session |-> TRUE,
                                             raw_features |-> input_data.raw_features]

-----------------------------------------------------------------------------
(* Requests *)

FeatureNames == {"age", "city", "extra"}

ValuesOf(name) ==
    IF name = "age" THEN {Num(30), Str("7"), Str("abc")}
    ELSE IF name = "city" THEN {Str("LA"), Str("Chicago"), Num(7)}
    ELSE {Num(1)}

\* The feature dictionaries of PredictionInput: any subset of the names.
FeatureMaps ==
    UNION { { f \in [S -> UNION {ValuesOf(n) : n \in S}] :
                \A n \in S : f[n] \in ValuesOf(n) } : S \in SUBSET FeatureNames }

-----------------------------------------------------------------------------
(* The stores: S3 and the datasets table *)

S3Object(bucket, key) == [bucket |-> bucket, key |-> key]

\* What the training container uploaded for a job (train.py, steps 2 to 6):
\* everything when it completed, the ONNX model only when the export
\* succeeded; the run of a failed job got as far as the EDA report.
ArtifactsOf(job) ==
    IF job.status = "completed"
    THEN {S3Object(BucketReports, EdaReportKey(job.job_id)),
          S3Object(BucketReports, TrainingReportKey(job.job_id)),
          S3Object(BucketModels, ModelKey(job.job_id))}
         \cup (IF job.onnx_model_path # ""
               THEN {S3Object(BucketModels, OnnxKey(job.job_id))} ELSE {})
    ELSE IF job.status = "failed"
    THEN {S3Object(BucketReports, EdaReportKey(job.job_id))}
    ELSE {}

\* The file uploaded for a dataset through the presigned URL
DatasetFiles(dataset_id) == {S3Object(BucketDatasets, DatasetKey(dataset_id, "data.csv"))}

InitialS3 ==
    UNION {ArtifactsOf(JobsTable[j]) \cup DatasetFiles(JobsTable[j].dataset_id) :
              j \in DOMAIN JobsTable}

InitialDatasets == {JobsTable[j].dataset_id : j \in DOMAIN JobsTable}

\* path.replace('s3://', '') and bucket, key = path.split('/', 1): the
\* unpacking fails when there is no "/" left.
ParseS3Path(path) ==
    LET stripped == IF Len(path) >= 2 /\ path[1] = "s3:" /\ path[2] = ""
                    THEN SubSeq(path, 3, Len(path)) ELSE path
    IN [ok |-> Len(stripped) >= 2,
        bucket |-> IF Len(stripped) >= 1 THEN stripped[1] ELSE "",
        key |-> IF Len(stripped) >= 2 THEN Tail(stripped) ELSE <<>>]

\* S3Service.delete_object
delete_object(objects, bucket, key) == objects \ {S3Object(bucket, key)}

\* A key starts with the segments of prefix
HasPrefix(key, prefix) ==
    Len(key) >= Len(prefix) /\ SubSeq(key, 1, Len(prefix)) = prefix

\* S3Service.delete_folder: every object under the prefix is deleted.
delete_folder(objects, bucket, prefix) ==
    {o \in objects : ~(o.bucket = bucket /\ HasPrefix(o.key, prefix))}

-----------------------------------------------------------------------------
(* models.py: the jobs router *)

\* A request to the jobs router with its response
ApiCall(op, job_id, flag, status, detail) ==
    [op |-> op, job_id |-> job_id, flag |-> flag, status |-> status, detail |-> detail]

NoApi == ApiCall("", "", FALSE, 0, "")

\* DynamoDBService.update_job_deployed, which deploy_model calls: the
\* item's deployed attribute is set.
update_job_deployed(table, job_id, deployed) ==
    [table EXCEPT ![job_id].deployed = deployed]

\* Mutant of DeployCheck: the ONNX model is not asked for.
DeployCheckStatusOnly(job, deploy) ==
    IF job.status # "completed"
    THEN [status |-> 400, detail |-> "Cannot deploy job"]
    ELSE [status |-> 200, detail |-> ""]

\* Lines 317-329 of deploy_model: the checks on the job.
DeployCheck(job, deploy) ==
    IF job.status # "completed"
    THEN [status |-> 400, detail |-> "Cannot deploy job"]
    ELSE IF deploy /\ job.onnx_model_path = ""
    THEN [status |-> 400, detail |-> "No ONNX model available for this job"]
    ELSE [status |-> 200, detail |-> ""]

\* deploy_model as a function of the jobs table and the request: the
\* response and the table afterwards.  dynamo_ok is whether the table's
\* update succeeds.
DeployModel(table, job_id, deploy, dynamo_ok) ==
    IF job_id \notin DOMAIN table
    THEN [status |-> 404, detail |-> "Job not found", jobs |-> table]
    ELSE LET check == DeployCheck(table[job_id], deploy)
         IN IF check.status # 200
            THEN [status |-> check.status, detail |-> check.detail, jobs |-> table]
            ELSE IF ~dynamo_ok
            THEN [status |-> 500, detail |-> "Error deploying model", jobs |-> table]
            ELSE [status |-> 200, detail |-> "Model successfully updated",
                  jobs |-> update_job_deployed(table, job_id, deploy)]

\* Lines 169-176, 179-187 and 190-197 of delete_job: the object a stored
\* path names is deleted; a path that does not parse, or a failing S3
\* call, is passed over.
DeleteAtPath(objects, path, s3_ok) ==
    LET parsed == ParseS3Path(path)
    IN IF Len(path) = 0 \/ ~parsed.ok \/ ~s3_ok
       THEN objects
       ELSE delete_object(objects, parsed.bucket, parsed.key)

\* delete_job as a function of the stores and the request: the response
\* and the stores afterwards.
DeleteJob(table, objects, dsets, job_id, delete_data, s3_ok, dynamo_ok) ==
    IF job_id \notin DOMAIN table
    THEN [status |-> 404, detail |-> "Job not found",
          jobs |-> table, s3 |-> objects, datasets |-> dsets]
    ELSE LET job == table[job_id]
             eda_path == IF Len(job.eda_report_path) > 0
                         THEN job.eda_report_path ELSE job.report_path
             no_model == DeleteAtPath(objects, job.model_path, s3_ok)
             no_eda == DeleteAtPath(no_model, eda_path, s3_ok)
             no_report == DeleteAtPath(no_eda, job.training_report_path, s3_ok)
             dataset_id == job.dataset_id
             no_files == IF dataset_id # "" /\ s3_ok
                         THEN delete_folder(no_report, BucketDatasets,
                                            <<"datasets", dataset_id>>)
                         ELSE no_report
             no_dataset == IF dataset_id # "" /\ s3_ok /\ dynamo_ok
                           THEN dsets \ {dataset_id} ELSE dsets
             objects_after == IF delete_data THEN no_files ELSE objects
             dsets_after == IF delete_data THEN no_dataset ELSE dsets
         IN IF ~dynamo_ok
            THEN [status |-> 500, detail |-> "Error deleting job",
                  jobs |-> table, s3 |-> objects_after, datasets |-> dsets_after]
            ELSE [status |-> 200, detail |-> "Job deleted successfully",
                  jobs |-> [k \in DOMAIN table \ {job_id} |-> table[k]],
                  s3 |-> objects_after, datasets |-> dsets_after]

-----------------------------------------------------------------------------
(* s3_service.py: the cache of presigned download URLs *)

\* expiration: int = 3600, the only value the routers call with
DefaultExpiration == 3600

\* generate_presigned_download_url: the URL is signed at a time for a
\* number of seconds; it is of no use from signed_at + expiration on.
PresignedUrl(bucket, key, signed_at, expiration) ==
    [bucket |-> bucket, key |-> key, signed_at |-> signed_at, expiration |-> expiration]

\* Mutant of CacheTtl: the entry is kept as long as the URL is good.
CacheTtlFull(expiration) == expiration

\* cache_ttl = int(expiration * 0.8)
CacheTtl(expiration) == (8 * expiration) \div 10

\* Mutant of ExpiredKeys: an entry at its expiry is left in the cache.
ExpiredKeysLate(cache, now) == {k \in DOMAIN cache : now > cache[k].expiry}

\* expired_keys = [k for k, (_, expiry) in self._url_cache.items() if now >= expiry]
ExpiredKeys(cache, now) == {k \in DOMAIN cache : now >= cache[k].expiry}

-----------------------------------------------------------------------------
(* routers/training.py, batch_service.py, training/train.py: a training run *)

\* schemas.py TrainingConfig: time_budget is None unless the client gives one
TrainingConfig(time_budget) == [t |-> "config", time_budget |-> time_budget, metric |-> "auto"]

\* TrainRequest.config: absent (null), the default TrainingConfig(), or one
\* with the smallest time budget the schema lets through
Configs == {NoneV, TrainingConfig(NoneV), TrainingConfig(Num(60))}

TrainRequest(dataset_id, target_column, config) ==
    [dataset_id |-> dataset_id, target_column |-> target_column, config |-> config]

\* The requests sent: "d0" is no dataset, "nope" is no column.
TrainRequests ==
    {TrainRequest(d, c, g) : d \in {"d0", "d3"}, c \in {"price", "nope"}, g \in Configs}

\* dataset['columns'] of the datasets in the table
DatasetColumns(dataset_id) == <<"age", "price">>

\* job_id = str(uuid.uuid4()): an id no job has had
FreshJobIds == <<"j12", "j13">>

\* JobDetails(..., status=JobStatus.PENDING, ...) as create_job puts it
JobDetails(job_id, dataset_id, target_column) ==
    [job_id |-> job_id, dataset_id |-> dataset_id, target_column |-> target_column,
     status |-> "pending", batch_job_id |-> "", error_message |-> ""]

\* {'name': 'TIME_BUDGET', 'value': str(config.get('time_budget', 300))}: the
\* dumped config always has the key, so None is handed over as 'None'.
TimeBudgetEnv(config) ==
    IF config.time_budget.t = "none" THEN "None" ELSE ToString(config.time_budget.n)

\* int(os.getenv('TIME_BUDGET', '300')) raises ValueError for text that is
\* not a number.
IsIntText(text) == \E n \in 0..9 : \E z \in {1, 10, 100} : text = ToString(60 * n * z)

TrainResponse(status_code, detail, job_id) ==
    [status_code |-> status_code, detail |-> detail, job_id |-> job_id]

NoRun == [api |-> "idle", request |-> TrainRequest("", "", NoneV), job_id |-> "",
          batch_job_id |-> "", response |-> TrainResponse(0, "", ""), issued |-> 0,
          containers |-> EmptyMap]

\* The callers of the service, threads of one process
Callers == {"a", "b"}

\* The objects URLs are asked for
UrlKeys == {<<BucketModels, ModelKey("j1")>>, <<BucketModels, OnnxKey("j1")>>}

\* The steps by which the clock is moved between two steps of the callers
Jumps == {1, CacheTtl(DefaultExpiration) - 1}

NoCaller == [pc |-> "idle", now |-> 0, cache_key |-> <<>>, seen |-> EmptyMap]

NoUrlReturn == [caller |-> "", cache_key |-> <<>>, raised |-> "", hit |-> FALSE,
                url |-> PresignedUrl("", <<>>, 0, 0), now |-> 0, seen |-> EmptyMap,
                cache |-> EmptyMap]

\* S3Service.__init__: an empty cache and a free lock
NoUrls == [cache |-> EmptyMap, lock |-> "", clock |-> 0, ticks |-> 0,
           callers |-> [c \in Callers |-> NoCaller], returned |-> NoUrlReturn]

-----------------------------------------------------------------------------
(* training/utils.py: the column classifiers *)

\* A number with a fractional part: n.digits, such as 3.14.  A number
\* without one is Num(n), in a float64 column as in an int64 column.
Frac(n, digits) == [t |-> "frac", n |-> n, s |-> digits]

\* A pandas Series: its name, its dtype as read_csv infers it (int64,
\* float64, bool or object) and its values, NoneV where absent (NaN).
Series(name, dtype, values) == [name |-> name, dtype |-> dtype, values |-> values]

NoSeries == Series("", "object", <<>>)

\* pd.api.types.is_numeric_dtype: bool counts as numeric.
is_numeric_dtype(y) == y.dtype \in {"int64", "float64", "bool"}

\* The distinct present values: series.dropna().unique()
Present(y) == {y.values[i] : i \in {j \in 1..Len(y.values) : y.values[j] # NoneV}}

\* series.nunique()
nunique(y) == Cardinality(Present(y))

\* a / b < num / den and a / b > num / den for b > 0.  The quotient of two
\* row counts and the literal are the doubles nearest to the fractions,
\* equal when the fractions are, so the comparison is that of the fractions.
RatioBelow(a, b, num, den) == a * den < num * b
RatioAbove(a, b, num, den) == a * den > num * b

\* (y.dropna() == y.dropna().astype(int)).all(): no present value has a
\* fractional part.
IsIntegerLike(y) == \A v \in Present(y) : v.t = "num"

\* Mutant of detect_problem_type: a numeric target with few distinct values
\* is a classification target whether or not the values are whole numbers.
detect_problem_type_any_number(y) ==
    IF Len(y.values) = 0 THEN "classification"
    ELSE IF ~is_numeric_dtype(y) THEN "classification"
    ELSE IF nunique(y) <= 10 THEN "classification"
    ELSE IF nunique(y) < 20 /\ RatioBelow(nunique(y), Len(y.values), 5, 100)
    THEN "classification"
    ELSE "regression"

\* utils.detect_problem_type
detect_problem_type(y) ==
    IF Len(y.values) = 0 THEN "classification"
    ELSE IF ~is_numeric_dtype(y) THEN "classification"
    ELSE LET n_unique == nunique(y)
             n_total == Len(y.values)
             is_integer_like == IsIntegerLike(y)
         IN IF is_integer_like /\ n_unique <= 10 THEN "classification"
            ELSE IF n_unique < 20 /\ RatioBelow(n_unique, n_total, 5, 100)
            THEN "classification"
            ELSE "regression"

\* A threshold num / den
Threshold(num, den) == [num |-> num, den |-> den]

\* What a classifier returned: a boolean, or the exception it raised.
Returned(value) == [raised |-> "", value |-> value]
Raised(exception) == [raised |-> exception, value |-> FALSE]

\* Mutant of is_high_cardinality_categorical: a column at the threshold
\* is flagged too.
is_high_cardinality_categorical_at(series, threshold) ==
    IF series.dtype # "object" THEN Returned(FALSE)
    ELSE IF Len(series.values) = 0 THEN Raised("ZeroDivisionError")
    ELSE Returned(~RatioBelow(nunique(series), Len(series.values),
                              threshold.num, threshold.den))

\* utils.is_high_cardinality_categorical; the division raises for a column
\* without rows.
is_high_cardinality_categorical(series, threshold) ==
    IF series.dtype # "object" THEN Returned(FALSE)
    ELSE LET n_unique == nunique(series)
             n_total == Len(series.values)
         IN IF n_total = 0 THEN Raised("ZeroDivisionError")
            ELSE Returned(RatioAbove(n_unique, n_total, threshold.num, threshold.den))

\* The columns handed to the classifiers.  A kind is a dtype, "fraction"
\* being a float64 column of numbers with decimals.
Kinds == {"int64", "bool", "float64", "fraction", "object"}

DtypeOf(kind) == IF kind = "fraction" THEN "float64" ELSE kind

Letters == <<"A", "B", "C", "D", "E", "F", "G", "H", "I", "J", "K", "L", "M",
             "N", "O", "P", "Q", "R", "S", "T", "U", "V", "W", "X", "Y", "Z">>

\* The i-th distinct value of a column of a kind
Pool(kind, i) ==
    IF kind = "object" THEN Str(Letters[i])
    ELSE IF kind = "fraction" THEN Frac(i, "5")
    ELSE Num(i - 1)

\* n rows going through the first k values of the pool, then m absent ones
Cycle(kind, k, n, m) ==
    [i \in 1..(n + m) |-> IF i <= n THEN Pool(kind, ((i - 1) % k) + 1) ELSE NoneV]

\* Row counts beyond MaxRows, around the points where a ratio of 0.05 is
\* crossed by 1, 11 and 12 distinct values
LongLens == {20, 21, 220, 221, 240, 241}

GeneratedSeries ==
    {Series("value", DtypeOf(c.kind), Cycle(c.kind, c.k, c.n, c.m)) :
        c \in {d \in [kind : Kinds, k : 0..MaxDistinct,
                      n : (0..MaxRows) \cup LongLens, m : 0..MaxNaN] :
                  /\ d.k <= d.n
                  /\ d.k = 0 <=> d.n = 0
                  /\ d.kind = "bool" => d.k <= 2
                  /\ d.kind \in {"int64", "bool"} => d.m = 0}}

\* The targets of the tests of detect_problem_type
ExampleSeries ==
    {Series("target", "int64", <<Num(0), Num(1), Num(0), Num(1), Num(1)>>),
     Series("target", "float64", <<Frac(35, "5"), Frac(42, "1"), Frac(38, "7")>>),
     Series("target", "float64", <<Frac(3, "14"), Frac(3, "14"), Frac(3, "14")>>),
     Series("target", "float64", <<>>)}

SeriesSet == GeneratedSeries \cup ExampleSeries

\* The thresholds the callers and the tests pass: 0.5, 0.3, 0.8
Thresholds == {Threshold(1, 2), Threshold(3, 10), Threshold(4, 5)}

-----------------------------------------------------------------------------
(* training/preprocessor.py: tables and the detection of useless columns *)

\* A DataFrame is the sequence of its columns, each a Series.
NoTable == <<>>

\* df.columns
Columns(table) == [i \in 1..Len(table) |-> table[i].name]
ColumnSet(table) == {table[i].name : i \in 1..Len(table)}

IndexOf(table, col) == CHOOSE i \in 1..Len(table) : table[i].name = col

\* df[col]
Column(table, col) == table[IndexOf(table, col)]

\* df.drop(columns=cols, errors='ignore')
Drop(table, cols) ==
    LET keep(c) == c.name \notin cols IN SelectSeq(table, keep)

\* X.empty: no column or no row
IsEmptyTable(table) == Len(table) = 0 \/ Len(table[1].values) = 0

\* AutoPreprocessor.__init__
AutoPreprocessor(target_column) ==
    [target_column |-> target_column,
     label_encoders |-> EmptyMap,
     feature_columns |-> <<>>,
     numeric_columns |-> <<>>,
     categorical_columns |-> <<>>,
     dropped_columns |-> <<>>]

NoResult == [op |-> ""]

\* The number of rows holding a value
Count(y, v) == Cardinality({i \in 1..Len(y.values) : y.values[i] = v})

\* feature_engine DropConstantFeatures(tol=0.98, missing_values='ignore').fit(X):
\* the columns whose most frequent value fills at least 98% of the rows;
\* an empty table, a column without a value and a table that would lose
\* every column raise.
DropConstantFeatures(X) ==
    IF IsEmptyTable(X) THEN Raised("ValueError")
    ELSE IF \E i \in 1..Len(X) : Present(X[i]) = {} THEN Raised("IndexError")
    ELSE LET quasi(c) == \E v \in Present(c) : 100 * Count(c, v) >= 98 * Len(c.values)
             features_to_drop_ == Columns(SelectSeq(X, quasi))
         IN  IF Len(features_to_drop_) = Len(X) THEN Raised("ValueError")
             ELSE Returned(features_to_drop_)

\* feature_engine DropDuplicateFeatures(missing_values='ignore').fit(X): the
\* columns equal to a column before them.
DropDuplicateFeatures(X) ==
    IF IsEmptyTable(X) THEN Raised("ValueError")
    ELSE LET repeats(c) == \E j \in 1..(IndexOf(X, c.name) - 1) :
                              X[j].dtype = c.dtype /\ X[j].values = c.values
         IN  Returned(Columns(SelectSeq(X, repeats)))

\* detect_useless_columns_with_feature_engine: the constant columns, then
\* the duplicates among the others; the target is taken out first and an
\* exception of a detector ends the step with what it has found.
detect_useless_columns_with_feature_engine(self, df) ==
    LET X == Drop(df, {self.target_column})
        constant == DropConstantFeatures(X)
    IN  IF constant.raised # "" THEN <<>>
        ELSE LET constant_cols == constant.value
                 X_no_constant == Drop(X, {constant_cols[i] : i \in 1..Len(constant_cols)})
                 new(col) == \A i \in 1..Len(constant_cols) : constant_cols[i] # col
             IN  IF Len(X_no_constant) > 1
                 THEN LET duplicate == DropDuplicateFeatures(X_no_constant)
                      IN  IF duplicate.raised # "" THEN constant_cols
                          ELSE constant_cols \o SelectSeq(duplicate.value, new)
                 ELSE constant_cols

\* re.search of the ID_PATTERNS in the lower-cased name, for the column
\* names of the tables below: customer_id matches _id$, the others none.
MatchesIdPattern(col_name) == col_name \in {"customer_id"}

\* re.match(r'^[A-Za-z0-9\-_]+$', str(x))
LooksLikeCode(v) == v.t = "str" /\ \E i \in 1..Len(Letters) : Letters[i] = v.s

\* The first 100 present values
SampleOf(y) ==
    LET present(v) == v # NoneV
        held == SelectSeq(y.values, present)
    IN  SubSeq(held, 1, IF Len(held) < 100 THEN Len(held) ELSE 100)

\* detect_id_column
detect_id_column(col_name, series) ==
    IF MatchesIdPattern(col_name) THEN Returned(TRUE)
    ELSE IF /\ is_numeric_dtype(series)
            /\ nunique(series) = Len(series.values)
            /\ series.dtype = "int64"
            /\ \A v \in Present(series) :
                  \/ \A w \in Present(series) : w.n >= v.n
                  \/ Num(v.n - 1) \in Present(series)
         THEN Returned(TRUE)
    ELSE IF series.dtype = "object"
         THEN IF Len(series.values) = 0 THEN Raised("ZeroDivisionError")
              ELSE LET sample == SampleOf(series)
                       matching == Cardinality({i \in 1..Len(sample) : LooksLikeCode(sample[i])})
                   IN  Returned(/\ RatioAbove(nunique(series), Len(series.values), 95, 100)
                                /\ Len(sample) > 0
                                /\ 10 * matching > 9 * Len(sample))
    ELSE Returned(FALSE)

\* utils.is_id_column: the same statements as detect_id_column, with the
\* module's ID_PATTERNS
is_id_column(col_name, series) == detect_id_column(col_name, series)

\* detect_high_cardinality_categorical
detect_high_cardinality_categorical(series, threshold) ==
    IF series.dtype # "object" THEN Returned(FALSE)
    ELSE IF Len(series.values) = 0 THEN Raised("ZeroDivisionError")
    ELSE Returned(RatioAbove(nunique(series), Len(series.values), threshold.num, threshold.den))

\* Mutant of SkipColumn: the target is looked at like any other column.
SkipColumnMarkedOnly(self, col, useless_cols) ==
    \E i \in 1..Len(useless_cols) : useless_cols[i] = col

\* detect_useless_columns, step 2: "Skip if already marked or is target"
SkipColumn(self, col, useless_cols) ==
    \/ \E i \in 1..Len(useless_cols) : useless_cols[i] = col
    \/ col = self.target_column

\* detect_useless_columns, step 2: the loop over df.columns from column i on
RECURSIVE CustomDetection(_, _, _, _)
CustomDetection(self, df, i, useless_cols) ==
    IF i > Len(df) THEN Returned(useless_cols)
    ELSE LET col == df[i].name
             series == df[i]
         IN  IF SkipColumn(self, col, useless_cols)
             THEN CustomDetection(self, df, i + 1, useless_cols)
             ELSE LET id == detect_id_column(col, series)
                  IN  IF id.raised # "" THEN id
                      ELSE IF id.value
                      THEN CustomDetection(self, df, i + 1, Append(useless_cols, col))
                      ELSE IF series.dtype = "object"
                      THEN LET high == detect_high_cardinality_categorical(series, Threshold(1, 2))
                           IN  IF high.raised # "" THEN high
                               ELSE IF high.value
                               THEN CustomDetection(self, df, i + 1, Append(useless_cols, col))
                               ELSE CustomDetection(self, df, i + 1, useless_cols)
                      ELSE CustomDetection(self, df, i + 1, useless_cols)

\* detect_useless_columns: the list it returns (and keeps in
\* self.dropped_columns), or the exception it raises
detect_useless_columns(self, df) ==
    CustomDetection(self, df, 1, detect_useless_columns_with_feature_engine(self, df))

\* AutoPreprocessor.detect_problem_type
AutoPreprocessor_detect_problem_type(y) ==
    IF Len(y.values) = 0 THEN "classification"
    ELSE IF is_numeric_dtype(y)
    THEN IF RatioBelow(nunique(y), Len(y.values), 5, 100) \/ nunique(y) < 20
         THEN "classification"
         ELSE "regression"
    ELSE "classification"

\* A number in tenths, and back
Tenths(v) == IF v.t = "frac" THEN 10 * v.n + 5 ELSE 10 * v.n
FromTenths(t) == IF t % 10 = 0 THEN Num(t \div 10) ELSE Frac(t \div 10, ToString(t % 10))

\* Series.median() of a column of whole numbers and halves: the middle of
\* the present values, the mean of the two middle ones when they are even
\* in number
Median(y) ==
    LET held == {i \in 1..Len(y.values) : y.values[i] # NoneV}
        below(v) == Cardinality({j \in held : Tenths(y.values[j]) < Tenths(v)})
        at(k) == Tenths(CHOOSE v \in Present(y) : below(v) <= k /\ k < below(v) + Count(y, v))
        n == Cardinality(held)
    IN  IF n = 0 THEN NoneV
        ELSE IF n % 2 = 1 THEN FromTenths(at(n \div 2))
        ELSE FromTenths((at(n \div 2 - 1) + at(n \div 2)) \div 2)

\* The texts of the tables in str order: capitals before small letters
SortedStrings ==
    SubSeq(Letters, 1, 21) \o <<"Unknown">> \o SubSeq(Letters, 22, 26) \o <<"nan">>

Rank(text) == CHOOSE i \in 1..Len(SortedStrings) : SortedStrings[i] = text

\* Series.mode()[0]: the most frequent present value, the least of them in
\* a tie; 'Unknown' when there is none
Mode(y) ==
    IF Present(y) = {} THEN Str("Unknown")
    ELSE CHOOSE v \in Present(y) :
            \A w \in Present(y) :
                \/ Count(y, v) > Count(y, w)
                \/ Count(y, v) = Count(y, w) /\ Rank(v.s) <= Rank(w.s)

\* fillna(value) of one column
FillNa(y, value) ==
    [y EXCEPT !.values = [i \in 1..Len(y.values) |->
                             IF y.values[i] = NoneV THEN value ELSE y.values[i]]]

\* handle_missing_values: the median for int64 and float64 columns, the
\* mode for object columns
handle_missing_values(df) ==
    [i \in 1..Len(df) |->
        IF df[i].dtype \in {"int64", "float64"} THEN FillNa(df[i], Median(df[i]))
        ELSE IF df[i].dtype = "object" THEN FillNa(df[i], Mode(df[i]))
        ELSE df[i]]

\* astype(str): NaN becomes 'nan'
astype_str(y) ==
    [i \in 1..Len(y.values) |-> IF y.values[i] = NoneV THEN "nan" ELSE PyStr(y.values[i])]

\* LabelEncoder.fit: classes_ are the distinct texts, sorted
LabelEncoder_fit(texts) ==
    LET seen(text) == \E i \in 1..Len(texts) : texts[i] = text
    IN  SelectSeq(SortedStrings, seen)

\* Mutant of LabelEncoder_fit_transform: the codes follow the order in
\* which the texts first appear.
LabelEncoder_fit_transform_first_seen(texts) ==
    [i \in 1..Len(texts) |->
        LET first(text) == CHOOSE j \in 1..Len(texts) :
                              texts[j] = text /\ \A k \in 1..(j - 1) : texts[k] # text
        IN  Cardinality({first(texts[j]) : j \in 1..Len(texts)} \cap (1..(first(texts[i]) - 1)))]

\* LabelEncoder.fit_transform: each text's place among the distinct texts
LabelEncoder_fit_transform(texts) ==
    [i \in 1..Len(texts) |->
        Cardinality({Rank(texts[j]) : j \in 1..Len(texts)} \cap (1..(Rank(texts[i]) - 1)))]

\* Mutant of EncodeWith: the value is looked up as it is, not as text.
EncodeWithRawValue(classes_, y) ==
    [i \in 1..Len(y.values) |->
        IF y.values[i] # NoneV /\ \E k \in 1..Len(classes_) : classes_[k] = y.values[i].s
        THEN Num((CHOOSE k \in 1..Len(classes_) : classes_[k] = y.values[i].s) - 1)
        ELSE Num(-1)]

\* encode_categorical with fit=False, one column:
\* le.transform([x])[0] if x in le.classes_ else -1, x the text of the value
EncodeWith(classes_, y) ==
    LET texts == astype_str(y)
    IN  [i \in 1..Len(texts) |->
            IF \E k \in 1..Len(classes_) : classes_[k] = texts[i]
            THEN Num((CHOOSE k \in 1..Len(classes_) : classes_[k] = texts[i]) - 1)
            ELSE Num(-1)]

Put(map, key, value) ==
    [k \in DOMAIN map \cup {key} |-> IF k = key THEN value ELSE map[k]]

\* encode_categorical: the object columns become int64 columns of codes;
\* fit stores an encoder per column, otherwise the stored encoders are
\* applied and a column without one is left as it is.
RECURSIVE EncodeColumns(_, _, _, _)
EncodeColumns(label_encoders, df, fit, i) ==
    IF i > Len(df) THEN [label_encoders |-> label_encoders, df |-> df]
    ELSE LET col == df[i].name
         IN  IF df[i].dtype # "object"
             THEN EncodeColumns(label_encoders, df, fit, i + 1)
             ELSE IF fit
             THEN LET texts == astype_str(df[i])
                      codes == LabelEncoder_fit_transform(texts)
                  IN  EncodeColumns(Put(label_encoders, col, LabelEncoder_fit(texts)),
                                    [df EXCEPT ![i] = Series(col, "int64",
                                        [k \in 1..Len(codes) |-> Num(codes[k])])],
                                    fit, i + 1)
             ELSE IF col \in DOMAIN label_encoders
             THEN EncodeColumns(label_encoders,
                                [df EXCEPT ![i] = Series(col, "int64",
                                    EncodeWith(label_encoders[col], df[i]))],
                                fit, i + 1)
             ELSE EncodeColumns(label_encoders, df, fit, i + 1)

encode_categorical(self, df, fit) ==
    LET object(c) == c.dtype = "object"
        encoded == EncodeColumns(self.label_encoders, df, fit, 1)
    IN  [self |-> [self EXCEPT !.categorical_columns = Columns(SelectSeq(df, object)),
                               !.label_encoders = encoded.label_encoders],
         df |-> encoded.df]

\* train_test_split(X, y, test_size=0.2, random_state=42, stratify=...): the
\* sizes of the two parts, or the ValueError for a part that would be empty
\* or could not hold every class.  Which rows go where is not modelled.
train_test_split(y, stratify) ==
    LET n_samples == Len(y.values)
        n_test == (n_samples + 4) \div 5
        n_train == n_samples - n_test
        classes == {y.values[i] : i \in 1..n_samples}
    IN  IF n_samples = 0 \/ n_train = 0 THEN Raised("ValueError")
        ELSE IF stratify /\ \/ \E c \in classes : Count(y, c) < 2
                            \/ n_train < Cardinality(classes)
                            \/ n_test < Cardinality(classes)
        THEN Raised("ValueError")
        ELSE Returned([n_train |-> n_train, n_test |-> n_test])

\* preprocess: the instance afterwards and what the call returned or raised
preprocess(self, df) ==
    IF self.target_column \notin ColumnSet(df)
    THEN [self |-> self, returned |-> Raised("KeyError")]
    ELSE
    LET y == Column(df, self.target_column)
        X0 == Drop(df, {self.target_column})
        useless == detect_useless_columns(self, df)
    IN  IF useless.raised # "" THEN [self |-> self, returned |-> useless]
        ELSE
        LET useless_cols == useless.value
            X1 == Drop(X0, {useless_cols[i] : i \in 1..Len(useless_cols)})
            problem_type == AutoPreprocessor_detect_problem_type(y)
            X2 == handle_missing_values(X1)
            numeric(c) == c.dtype \in {"int64", "float64"}
            self1 == [self EXCEPT !.dropped_columns = useless_cols,
                                  !.feature_columns = Columns(X2),
                                  !.numeric_columns = Columns(SelectSeq(X2, numeric))]
            encoded == encode_categorical(self1, X2, TRUE)
            encode_target == problem_type = "classification" /\ ~is_numeric_dtype(y)
            texts == astype_str(y)
            codes == LabelEncoder_fit_transform(texts)
            y1 == IF encode_target
                  THEN Series(y.name, "int64", [k \in 1..Len(codes) |-> Num(codes[k])])
                  ELSE y
            self2 == IF encode_target
                     THEN [encoded.self EXCEPT !.label_encoders =
                              Put(@, "__target__", LabelEncoder_fit(texts))]
                     ELSE encoded.self
            split == train_test_split(y1, problem_type = "classification")
        IN  IF split.raised # "" THEN [self |-> self2, returned |-> split]
            ELSE [self |-> self2,
                  returned |-> Returned([X |-> encoded.df, y |-> y1.values,
                                         n_train |-> split.value.n_train,
                                         n_test |-> split.value.n_test,
                                         problem_type |-> problem_type])]

-----------------------------------------------------------------------------
(* scripts/predict.py: the standalone predictor *)

\* df[preprocessor.feature_columns]
SelectColumns(table, names) == [i \in 1..Len(names) |-> Column(table, names[i])]

\* prepare_input: the feature columns in the preprocessor's order, numeric
\* gaps filled with the median of the data, text gaps with 'Unknown', and
\* every column that has a saved encoder encoded with it
prepare_input(data, preprocessor) ==
    IF \E i \in 1..Len(preprocessor.feature_columns) :
           preprocessor.feature_columns[i] \notin ColumnSet(data)
    THEN Raised("ValueError")
    ELSE LET selected == SelectColumns(data, preprocessor.feature_columns)
             filled == [i \in 1..Len(selected) |->
                           IF selected[i].dtype \in {"int64", "float64"}
                           THEN FillNa(selected[i], Median(selected[i]))
                           ELSE IF selected[i].dtype = "object"
                           THEN FillNa(selected[i], Str("Unknown"))
                           ELSE selected[i]]
         IN  Returned([i \in 1..Len(filled) |->
                          IF filled[i].name \in DOMAIN preprocessor.label_encoders
                          THEN Series(filled[i].name, "int64",
                                      EncodeWith(preprocessor.label_encoders[filled[i].name],
                                                 filled[i]))
                          ELSE filled[i]])

\* The tables handed to the preprocessor: up to three columns, each of one
\* of these shapes, all of the same number of rows.
ColumnNames == <<"customer_id", "age", "price">>

Shapes == {"seq", "const", "binary", "gaps", "text", "codes", "labels"}

\* A table without rows is read with object columns only.
ShapeDtype(shape, n) ==
    IF n = 0 \/ shape \in {"text", "codes", "labels"} THEN "object"
    ELSE IF shape \in {"frac", "gaps"} THEN "float64"
    ELSE "int64"

ShapeValues(shape, n) ==
    [i \in 1..n |->
        IF shape = "seq" THEN Num(i)
        ELSE IF shape = "const" THEN Num(7)
        ELSE IF shape = "quasi" THEN Num(IF i = n THEN 1 ELSE 0)
        ELSE IF shape = "binary" THEN Num(i % 2)
        ELSE IF shape = "frac" THEN Frac((i % 3) + 1, "5")
        ELSE IF shape = "gaps" THEN IF i = n THEN NoneV ELSE Frac(i % 4, "5")
        ELSE IF shape = "text" THEN Str(Letters[(i % 2) + 1])
        ELSE IF shape = "codes" THEN Str(Letters[((i - 1) % Len(Letters)) + 1])
        ELSE IF i = n THEN NoneV ELSE Str(Letters[((i - 1) % 3) + 1])]

RowCounts == {0, 1, 4, MaxRows}

\* Tables long enough for a column to be constant but for one row in 50
LongShapes ==
    {<<"quasi", "frac", "binary">>, <<"quasi", "binary", "quasi">>,
     <<"binary", "quasi", "quasi">>, <<"codes", "text", "quasi">>}

TableOf(names, shapes, n) ==
    [i \in 1..Len(names) |->
        Series(names[i], ShapeDtype(shapes[i], n), ShapeValues(shapes[i], n))]

NameLists ==
    {<<"customer_id">>, <<"age">>, <<"price">>,
     <<"customer_id", "age">>, <<"customer_id", "price">>, <<"age", "price">>,
     ColumnNames}

Tables ==
    UNION {{TableOf(names, shapes, n) : shapes \in [1..Len(names) -> Shapes]} :
              <<names, n>> \in NameLists \X RowCounts}
    \cup {TableOf(ColumnNames, shapes, 50) : shapes \in LongShapes}

\* The target the run is asked for: a column of the table or not
TargetNames == {"price", "customer_id"}

\* The same table with each text replaced by the next one: some of its
\* texts were seen by the encoders, some were not.
NextText(v) ==
    IF v.t # "str" THEN v
    ELSE Str(Letters[((CHOOSE i \in 1..Len(Letters) : Letters[i] = v.s) % Len(Letters)) + 1])

Shifted(table) ==
    [i \in 1..Len(table) |->
        [table[i] EXCEPT !.values = [k \in 1..Len(table[i].values) |->
                                        NextText(table[i].values[k])]]]

-----------------------------------------------------------------------------
(* State *)

VARIABLES
    jobs,         \* the DynamoDB jobs table: job_id -> item
    model_cache,  \* _model_cache: job_id -> (session, metadata)
    used,         \* job ids in the order of their last get-or-load, oldest first
    request,      \* the last prediction request
    response,     \* its response
    trace,        \* what it did besides answering
    prev,         \* the request, response and cache hit before it
    pc,           \* per worker: its position in _get_cached_model
    wjob,         \* per worker: the job_id it is serving
    wsession,     \* per worker: the session it holds
    raw_features, \* the caller's features dictionary after the last prediction
    s3,           \* the objects in the S3 buckets
    datasets,     \* the DynamoDB datasets table: the dataset ids with a record
    api,          \* the last request to the jobs router and its response
    series,       \* training side: the column handed to the column classifiers
    df,           \* training side: the table read from the dataset's CSV
    preprocessor, \* training side: the AutoPreprocessor instance
    result,       \* training side: what the last call returned
    urls,         \* S3Service: _url_cache, _cache_lock, the clock and the callers
    run           \* start_training and the training containers it submitted

vars == <<jobs, model_cache, used, request, response, trace, prev, pc, wjob, wsession,
          raw_features, s3, datasets, api, series, df, preprocessor, result, urls, run>>

\* What the prediction router never touches: the stores behind the jobs
\* router, and the training container's objects.
store == <<s3, datasets, api>>
fit == <<series, df, preprocessor, result, urls, run>>

Workers == 1..NumWorkers

NoRequest == [job_id |-> "", features |-> EmptyMap]
NoResponse == ErrorResponse("", 0, "", <<>>, "", NoneV)
NoPrev == [request |-> NoRequest, response |-> NoResponse, cached |-> FALSE]

\* used with job_id moved to the most recent end
Touch(order, job_id) == Append(SelectSeq(order, LAMBDA k : k # job_id), job_id)

\* The API process has just started: the cache is empty, the jobs table
\* holds what earlier training runs and deployments left.
InitApi ==
    /\ jobs = JobsTable
    /\ model_cache = EmptyMap
    /\ used = <<>>
    /\ request = NoRequest
    /\ response = NoResponse
    /\ trace = NoTrace
    /\ prev = NoPrev
    /\ pc = [w \in Workers |-> "idle"]
    /\ wjob = [w \in Workers |-> ""]
    /\ wsession = [w \in Workers |-> InferenceSession("", 0)]
    /\ raw_features = EmptyMap
    /\ s3 = InitialS3
    /\ datasets = InitialDatasets
    /\ api = NoApi
    /\ urls = NoUrls
    /\ run = NoRun

\* No training run is looked at.
Init ==
    /\ InitApi
    /\ series = NoSeries
    /\ df = NoTable
    /\ preprocessor = AutoPreprocessor("")
    /\ result = NoResult

\* Mutant of make_prediction: the job is looked up in a copy of the table
\* taken when the process started.
make_prediction_stale(job_id, features, load_ok) ==
    LET r == MakePrediction(JobsTable, model_cache, job_id, features, load_ok)
    IN /\ request' = [job_id |-> job_id, features |-> features]
       /\ response' = r.response
       /\ trace' = r.trace
       /\ model_cache' = r.cache
       /\ used' = IF r.got_session THEN Touch(used, job_id) ELSE used
       /\ raw_features' = r.raw_features
       /\ UNCHANGED <<jobs, pc, wjob, wsession, store, fit>>

\* POST /predict/{job_id}, served start to end without interleaving.
make_prediction(job_id, features, load_ok) ==
    LET r == MakePrediction(jobs, model_cache, job_id, features, load_ok)
    IN /\ request' = [job_id |-> job_id, features |-> features]
       /\ response' = r.response
       /\ trace' = r.trace
       /\ model_cache' = r.cache
       /\ used' = IF r.got_session THEN Touch(used, job_id) ELSE used
       /\ raw_features' = r.raw_features
       /\ UNCHANGED <<jobs, pc, wjob, wsession, store, fit>>

\* Spec: clients send any feature dictionary for the jobs of PredictJobs.
PredictJobs == {"j0", "j1", "j2", "j5", "j6", "j7"}

Predict ==
    \E job_id \in PredictJobs, features \in FeatureMaps, load_ok \in BOOLEAN :
        /\ make_prediction(job_id, features, load_ok)
        /\ UNCHANGED prev

Next == Predict

Spec == Init /\ [][Next]_vars

\* SpecContract: clients send any feature dictionary for the jobs whose
\* stored preprocessing_info is not what a fit produces.
ContractJobs == {"j5", "j6", "j11"}

PredictContract ==
    \E job_id \in ContractJobs, features \in FeatureMaps, load_ok \in BOOLEAN :
        /\ make_prediction(job_id, features, load_ok)
        /\ UNCHANGED prev

NextContract == PredictContract

SpecContract == Init /\ [][NextContract]_vars

\* SpecCache: clients send complete, well-formed requests for more deployed
\* models than MAX_CACHED_MODELS.
CacheJobs == {"j1", "j2", "j3", "j4"}

GoodFeatures == ("age" :> Num(30)) @@ ("city" :> Str("LA"))

PredictAny ==
    \E job_id \in CacheJobs, load_ok \in BOOLEAN :
        /\ make_prediction(job_id, GoodFeatures, load_ok)
        /\ UNCHANGED prev

NextCache == PredictAny

SpecCache == Init /\ [][NextCache]_vars

\* SpecRepeat: clients repeat requests; prev keeps an earlier request with
\* its response, and whether the job's model was cached after it.
RepeatJobs == {"j1", "j2"}

RepeatFeatures == {f \in FeatureMaps : DOMAIN f = {"age", "city"}}

PredictAgain ==
    \E job_id \in RepeatJobs, features \in RepeatFeatures, load_ok \in BOOLEAN :
        /\ make_prediction(job_id, features, load_ok)
        /\ \/ prev' = [request |-> request, response |-> response,
                       cached |-> request.job_id \in DOMAIN model_cache]
           \/ UNCHANGED prev

NextRepeat == PredictAgain

SpecRepeat == Init /\ [][NextRepeat]_vars

-----------------------------------------------------------------------------
(* Concurrent requests: _get_cached_model step by step *)

\* The deployed models the concurrent workers ask for.
ConcJobs == {"j1", "j2"}

\* `if job_id in _model_cache`: a worker starts serving job_id and tests
\* the cache.
CacheCheck(w, job_id) ==
    /\ pc[w] = "idle"
    /\ wjob' = [wjob EXCEPT ![w] = job_id]
    /\ pc' = [pc EXCEPT ![w] = IF job_id \in DOMAIN model_cache THEN "hit" ELSE "load"]
    /\ UNCHANGED <<jobs, model_cache, used, request, response, trace, prev, wsession, raw_features, store, fit>>

\* `return _model_cache[job_id][0]`: a KeyError if the entry is gone.
CacheHit(w) ==
    /\ pc[w] = "hit"
    /\ IF wjob[w] \in DOMAIN model_cache
       THEN /\ wsession' = [wsession EXCEPT ![w] = model_cache[wjob[w]].session]
            /\ pc' = [pc EXCEPT ![w] = "done"]
            /\ used' = Touch(used, wjob[w])
       ELSE /\ pc' = [pc EXCEPT ![w] = "keyerror"]
            /\ UNCHANGED <<wsession, used>>
    /\ UNCHANGED <<jobs, model_cache, request, response, trace, prev, wjob, raw_features, store, fit>>

\* The download and ort.InferenceSession(...): slow, and may fail.
CacheLoad(w, load_ok) ==
    /\ pc[w] = "load"
    /\ IF load_ok
       THEN /\ wsession' = [wsession EXCEPT
                               ![w] = InferenceSession(jobs[wjob[w]].onnx_model_path, w)]
            /\ pc' = [pc EXCEPT ![w] = "insert"]
       ELSE /\ pc' = [pc EXCEPT ![w] = "error"]
            /\ UNCHANGED wsession
    /\ UNCHANGED <<jobs, model_cache, used, request, response, trace, prev, wjob, raw_features, store, fit>>

\* `_model_cache[job_id] = (session, {'path': onnx_path})`
CacheStore(w) ==
    /\ pc[w] = "insert"
    /\ model_cache' = CacheInsert(model_cache, wjob[w], wsession[w],
                                  jobs[wjob[w]].onnx_model_path)
    /\ used' = Touch(used, wjob[w])
    /\ pc' = [pc EXCEPT ![w] = "done"]
    /\ UNCHANGED <<jobs, request, response, trace, prev, wjob, wsession, raw_features, store, fit>>

\* The request ends; the worker takes the next one.
CacheReturn(w) ==
    /\ pc[w] \in {"done", "error", "keyerror"}
    /\ pc' = [pc EXCEPT ![w] = "idle"]
    /\ wjob' = [wjob EXCEPT ![w] = ""]
    /\ wsession' = [wsession EXCEPT ![w] = InferenceSession("", 0)]
    /\ UNCHANGED <<jobs, model_cache, used, request, response, trace, prev, raw_features, store, fit>>

NextConc ==
    \E w \in Workers :
        \/ \E job_id \in ConcJobs : CacheCheck(w, job_id)
        \/ CacheHit(w)
        \/ \E load_ok \in BOOLEAN : CacheLoad(w, load_ok)
        \/ CacheStore(w)
        \/ CacheReturn(w)

SpecConc == Init /\ [][NextConc]_vars

-----------------------------------------------------------------------------
(* The life of a job: training ends, deploy, undeploy, delete, predict *)

\* POST /jobs/{job_id}/deploy
deploy_model(job_id, deploy, dynamo_ok) ==
    LET r == DeployModel(jobs, job_id, deploy, dynamo_ok)
    IN /\ api' = ApiCall("deploy", job_id, deploy, r.status, r.detail)
       /\ jobs' = r.jobs
       /\ UNCHANGED <<model_cache, used, request, response, trace, prev, pc, wjob,
                      wsession, raw_features, s3, datasets, fit>>

\* DELETE /jobs/{job_id}
delete_job(job_id, delete_data, s3_ok, dynamo_ok) ==
    LET r == DeleteJob(jobs, s3, datasets, job_id, delete_data, s3_ok, dynamo_ok)
    IN /\ api' = ApiCall("delete", job_id, delete_data, r.status, r.detail)
       /\ jobs' = r.jobs
       /\ s3' = r.s3
       /\ datasets' = r.datasets
       /\ UNCHANGED <<model_cache, used, request, response, trace, prev, pc, wjob,
                      wsession, raw_features, fit>>

\* Step 7 of train.py for a running job: the artifacts are in S3 and
\* update_job_completion sets the item's attributes; the attributes it
\* does not set (deployed, dataset_id) stay.
update_job_completion(job_id, onnx_ok) ==
    /\ job_id \in DOMAIN jobs
    /\ jobs[job_id].status = "running"
    /\ LET item == [CompletedJob(job_id, "regression", <<>>, <<"age">>,
                                 Metadata(EmptyMap, EmptyMap), onnx_ok,
                                 jobs[job_id].deployed)
                        EXCEPT !.dataset_id = jobs[job_id].dataset_id]
       IN /\ jobs' = [jobs EXCEPT ![job_id] = item]
          /\ s3' = s3 \cup ArtifactsOf(item)
    /\ UNCHANGED <<model_cache, used, request, response, trace, prev, pc, wjob,
                   wsession, raw_features, datasets, api, fit>>

\* The except branch of train.py for a running job: update_job_status
\* sets the status to failed; the EDA report was uploaded before.
update_job_status_failed(job_id) ==
    /\ job_id \in DOMAIN jobs
    /\ jobs[job_id].status = "running"
    /\ jobs' = [jobs EXCEPT ![job_id].status = "failed"]
    /\ s3' = s3 \cup ArtifactsOf(jobs'[job_id])
    /\ UNCHANGED <<model_cache, used, request, response, trace, prev, pc, wjob,
                   wsession, raw_features, datasets, api, fit>>

\* SpecLife: clients deploy, undeploy, delete and ask predictions of an
\* unknown job, a deployed job and a job whose training is ending.
LifeJobs == {"j0", "j1", "j8"}

LifeFeatures == ("age" :> Num(30)) @@ ("city" :> Str("LA"))

LifePredict ==
    \E job_id \in LifeJobs :
        /\ make_prediction(job_id, LifeFeatures, TRUE)
        /\ UNCHANGED prev

LifeDeploy ==
    \E job_id \in LifeJobs, deploy \in BOOLEAN, dynamo_ok \in BOOLEAN :
        deploy_model(job_id, deploy, dynamo_ok)

LifeDelete ==
    \E job_id \in LifeJobs, delete_data \in BOOLEAN :
        delete_job(job_id, delete_data, TRUE, TRUE)

LifeTrainingEnds ==
    \E job_id \in LifeJobs :
        \/ \E onnx_ok \in BOOLEAN : update_job_completion(job_id, onnx_ok)
        \/ update_job_status_failed(job_id)

NextLife == LifePredict \/ LifeDeploy \/ LifeDelete \/ LifeTrainingEnds

SpecLife == Init /\ [][NextLife]_vars

-----------------------------------------------------------------------------
(* The callers of generate_presigned_download_url_cached *)

url_side == <<jobs, model_cache, used, request, response, trace, prev, pc, wjob, wsession,
              raw_features, s3, datasets, api, series, df, preprocessor, result, run>>

\* cache_key = (bucket, key); now = datetime.utcnow(): the call reads the
\* clock before it waits for the lock.
UrlCall(c, cache_key) ==
    /\ urls.callers[c].pc = "idle"
    /\ urls' = [urls EXCEPT !.callers[c] =
                    [pc |-> "called", now |-> urls.clock, cache_key |-> cache_key,
                     seen |-> EmptyMap]]
    /\ UNCHANGED url_side

\* with self._cache_lock: the lazy cleanup and the look into the cache; a
\* hit returns the cached URL and frees the lock.
UrlLookup(c) ==
    LET me == urls.callers[c]
        kept == [k \in DOMAIN urls.cache \ ExpiredKeys(urls.cache, me.now) |-> urls.cache[k]]
    IN  /\ me.pc = "called"
        /\ urls.lock = ""
        /\ urls' =
              IF me.cache_key \in DOMAIN kept /\ me.now < kept[me.cache_key].expiry
              THEN [urls EXCEPT !.cache = kept,
                                !.callers[c] = NoCaller,
                                !.returned = [caller |-> c, cache_key |-> me.cache_key,
                                              raised |-> "", hit |-> TRUE,
                                              url |-> kept[me.cache_key].url,
                                              now |-> me.now, seen |-> urls.cache,
                                              cache |-> kept]]
              ELSE [urls EXCEPT !.cache = kept,
                                !.lock = c,
                                !.callers[c] = [me EXCEPT !.pc = "miss", !.seen = urls.cache]]
        /\ UNCHANGED url_side

\* The miss, still under the lock: a new URL is generated and stored with
\* its cache expiry; a ClientError leaves the cache without it.
UrlStore(c, s3_ok) ==
    LET me == urls.callers[c]
        url == PresignedUrl(me.cache_key[1], me.cache_key[2], urls.clock, DefaultExpiration)
        cache_expiry == me.now + CacheTtl(DefaultExpiration)
        stored == Put(urls.cache, me.cache_key, [url |-> url, expiry |-> cache_expiry])
    IN  /\ me.pc = "miss"
        /\ urls' =
              IF s3_ok
              THEN [urls EXCEPT !.cache = stored,
                                !.lock = "",
                                !.callers[c] = NoCaller,
                                !.returned = [caller |-> c, cache_key |-> me.cache_key,
                                              raised |-> "", hit |-> FALSE, url |-> url,
                                              now |-> me.now, seen |-> me.seen,
                                              cache |-> stored]]
              ELSE [urls EXCEPT !.lock = "",
                                !.callers[c] = NoCaller,
                                !.returned = [NoUrlReturn EXCEPT !.caller = c,
                                                                 !.cache_key = me.cache_key,
                                                                 !.raised = "Exception",
                                                                 !.now = me.now,
                                                                 !.seen = me.seen,
                                                                 !.cache = urls.cache]]
        /\ UNCHANGED url_side

\* Time passes.
UrlTick(d) ==
    /\ urls.ticks < MaxTicks
    /\ urls' = [urls EXCEPT !.clock = @ + d, !.ticks = @ + 1]
    /\ UNCHANGED url_side

NextUrl ==
    \/ \E c \in Callers, cache_key \in UrlKeys : UrlCall(c, cache_key)
    \/ \E c \in Callers : UrlLookup(c)
    \/ \E c \in Callers, s3_ok \in BOOLEAN : UrlStore(c, s3_ok)
    \/ \E d \in Jumps : UrlTick(d)

SpecUrl == Init /\ [][NextUrl]_vars

-----------------------------------------------------------------------------
(* start_training and the training container *)

train_side == <<model_cache, used, request, response, trace, prev, pc, wjob, wsession,
                raw_features, s3, datasets, api, series, df, preprocessor, result, urls>>

\* The handler ends with an answer.
Answer(status_code, detail, job_id) ==
    [run EXCEPT !.api = "idle", !.job_id = job_id,
                !.response = TrainResponse(status_code, detail, job_id)]

\* start_training up to create_job: the dataset and the target column are
\* verified, then the pending job is put.
StartTraining(req, dynamo_ok) ==
    LET job_id == FreshJobIds[run.issued + 1]
        asked == [run EXCEPT !.request = req, !.batch_job_id = ""]
    IN  /\ run.api = "idle"
        /\ run.issued < Len(FreshJobIds)
        /\ IF req.dataset_id \notin datasets
           THEN /\ run' = [asked EXCEPT !.job_id = "",
                                        !.response = TrainResponse(404, "Dataset not found", "")]
                /\ jobs' = jobs
           ELSE IF ~\E i \in 1..Len(DatasetColumns(req.dataset_id)) :
                        DatasetColumns(req.dataset_id)[i] = req.target_column
           THEN /\ run' = [asked EXCEPT !.job_id = "",
                                        !.response = TrainResponse(400, "Target column not found in dataset", "")]
                /\ jobs' = jobs
           ELSE IF ~dynamo_ok
           THEN /\ run' = [asked EXCEPT !.job_id = job_id, !.issued = @ + 1,
                                        !.response = TrainResponse(500, "Error starting training", "")]
                /\ jobs' = jobs
           ELSE /\ run' = [asked EXCEPT !.api = "created", !.job_id = job_id, !.issued = @ + 1,
                                        !.response = TrainResponse(0, "", "")]
                /\ jobs' = Put(jobs, job_id, JobDetails(job_id, req.dataset_id, req.target_column))
        /\ UNCHANGED train_side

\* batch_service.submit_training_job(..., config=request.config.model_dump())
SubmitTrainingJob(batch_ok) ==
    /\ run.api = "created"
    /\ run' =
          IF run.request.config.t = "none" \/ ~batch_ok
          THEN Answer(500, "Error starting training", "")
          ELSE [run EXCEPT !.api = "submitted",
                           !.batch_job_id = run.job_id,
                           !.containers = Put(@, run.job_id,
                                [pc |-> "queued",
                                 TIME_BUDGET |-> TimeBudgetEnv(run.request.config),
                                 exit |-> ""])]
    /\ UNCHANGED <<jobs, train_side>>

\* dynamodb_service.update_job_status(job_id, PENDING, {'batch_job_id': ...})
\* and the TrainResponse, whose estimated_time must be an int.
RecordBatchJob(dynamo_ok) ==
    /\ run.api = "submitted"
    /\ IF ~dynamo_ok
       THEN /\ run' = Answer(500, "Error starting training", "")
            /\ jobs' = jobs
       ELSE /\ jobs' = [jobs EXCEPT ![run.job_id].status = "pending",
                                    ![run.job_id].batch_job_id = run.batch_job_id]
            /\ run' = IF run.request.config.time_budget.t = "none"
                      THEN Answer(500, "Error starting training", "")
                      ELSE Answer(200, "", run.job_id)
    /\ UNCHANGED train_side

\* train.py main, lines 18-37: the environment is read before the try.
ContainerStart(job_id) ==
    /\ job_id \in DOMAIN run.containers
    /\ run.containers[job_id].pc = "queued"
    /\ run' = IF IsIntText(run.containers[job_id].TIME_BUDGET)
              THEN [run EXCEPT !.containers[job_id].pc = "started"]
              ELSE [run EXCEPT !.containers[job_id].pc = "exited",
                               !.containers[job_id].exit = "ValueError"]
    /\ UNCHANGED <<jobs, train_side>>

\* update_job_status(jobs_table, job_id, 'running'), the first line of the try
ContainerRunning(job_id, dynamo_ok) ==
    /\ job_id \in DOMAIN run.containers
    /\ run.containers[job_id].pc = "started"
    /\ IF dynamo_ok
       THEN /\ jobs' = [jobs EXCEPT ![job_id].status = "running"]
            /\ run' = [run EXCEPT !.containers[job_id].pc = "training"]
       ELSE /\ jobs' = jobs
            /\ run' = [run EXCEPT !.containers[job_id].pc = "failing"]
    /\ UNCHANGED train_side

\* Steps 1 to 6 and update_job_completion; any exception goes to the handler.
ContainerFinish(job_id, trained, dynamo_ok) ==
    /\ job_id \in DOMAIN run.containers
    /\ run.containers[job_id].pc = "training"
    /\ IF trained /\ dynamo_ok
       THEN /\ jobs' = [jobs EXCEPT ![job_id].status = "completed"]
            /\ run' = [run EXCEPT !.containers[job_id].pc = "exited",
                                  !.containers[job_id].exit = "0"]
       ELSE /\ jobs' = jobs
            /\ run' = [run EXCEPT !.containers[job_id].pc = "failing"]
    /\ UNCHANGED train_side

\* except Exception: update_job_status(..., 'failed', error_message), exit(1);
\* an exception of that update ends the container as well.
ContainerFail(job_id, dynamo_ok) ==
    /\ job_id \in DOMAIN run.containers
    /\ run.containers[job_id].pc = "failing"
    /\ IF dynamo_ok
       THEN /\ jobs' = [jobs EXCEPT ![job_id].status = "failed",
                                    ![job_id].error_message = "Training failed"]
            /\ run' = [run EXCEPT !.containers[job_id].pc = "exited",
                                  !.containers[job_id].exit = "1"]
       ELSE /\ jobs' = jobs
            /\ run' = [run EXCEPT !.containers[job_id].pc = "exited",
                                  !.containers[job_id].exit = "ClientError"]
    /\ UNCHANGED train_side

TrainingJobIds == {FreshJobIds[i] : i \in 1..Len(FreshJobIds)}

NextTrain ==
    \/ \E req \in TrainRequests, dynamo_ok \in BOOLEAN : StartTraining(req, dynamo_ok)
    \/ \E batch_ok \in BOOLEAN : SubmitTrainingJob(batch_ok)
    \/ \E dynamo_ok \in BOOLEAN : RecordBatchJob(dynamo_ok)
    \/ \E job_id \in TrainingJobIds : ContainerStart(job_id)
    \/ \E job_id \in TrainingJobIds, dynamo_ok \in BOOLEAN : ContainerRunning(job_id, dynamo_ok)
    \/ \E job_id \in TrainingJobIds, trained, dynamo_ok \in BOOLEAN :
            ContainerFinish(job_id, trained, dynamo_ok)
    \/ \E job_id \in TrainingJobIds, dynamo_ok \in BOOLEAN : ContainerFail(job_id, dynamo_ok)

SpecTrain == Init /\ [][NextTrain]_vars

-----------------------------------------------------------------------------
(* The column classifiers applied to a column *)

api_side == <<jobs, model_cache, used, request, response, trace, prev, pc, wjob,
              wsession, raw_features, store, urls, run>>

\* detect_problem_type(series)
ClassifyTarget ==
    /\ result' = [op |-> "detect_problem_type", value |-> detect_problem_type(series)]
    /\ UNCHANGED <<api_side, series, df, preprocessor>>

\* is_high_cardinality_categorical(series, threshold)
ClassifyCardinality(threshold) ==
    /\ result' = [op |-> "is_high_cardinality_categorical", threshold |-> threshold,
                  returned |-> is_high_cardinality_categorical(series, threshold)]
    /\ UNCHANGED <<api_side, series, df, preprocessor>>

\* preprocessor.detect_useless_columns(df)
DetectUseless ==
    LET found == detect_useless_columns(preprocessor, df)
    IN  /\ result' = [op |-> "detect_useless_columns", returned |-> found]
        /\ preprocessor' = IF found.raised # "" THEN preprocessor
                           ELSE [preprocessor EXCEPT !.dropped_columns = found.value]
        /\ UNCHANGED <<api_side, series, df>>

\* preprocessor.encode_categorical(input, fit)
EncodeCategorical(input, fit_) ==
    LET encoded == encode_categorical(preprocessor, input, fit_)
    IN  /\ result' = [op |-> "encode_categorical", fit |-> fit_, input |-> input,
                      returned |-> encoded.df]
        /\ preprocessor' = encoded.self
        /\ UNCHANGED <<api_side, series, df>>

\* preprocessor.handle_missing_values(df)
HandleMissing ==
    /\ result' = [op |-> "handle_missing_values", returned |-> handle_missing_values(df)]
    /\ UNCHANGED <<api_side, series, df, preprocessor>>

\* prepare_input(data, preprocessor) of the standalone predictor
PrepareInput(data) ==
    /\ result' = [op |-> "prepare_input", input |-> data,
                  returned |-> prepare_input(data, preprocessor)]
    /\ UNCHANGED <<api_side, series, df, preprocessor>>

\* preprocessor.preprocess(df)
Preprocess ==
    LET done == preprocess(preprocessor, df)
    IN  /\ result' = [op |-> "preprocess", returned |-> done.returned]
        /\ preprocessor' = done.self
        /\ UNCHANGED <<api_side, series, df>>

InitFit ==
    /\ InitApi
    /\ series = NoSeries
    /\ df \in Tables
    /\ \E target_column \in TargetNames : preprocessor = AutoPreprocessor(target_column)
    /\ result = NoResult

NextFit ==
    \/ DetectUseless
    \/ HandleMissing
    \/ Preprocess
    \/ \E data \in {df, Shifted(df)} : PrepareInput(data)

SpecFit == InitFit /\ [][NextFit]_vars

\* The encoders alone, fitted on the table and applied to it and to a
\* table with other texts
InitEncode ==
    /\ InitApi
    /\ series = NoSeries
    /\ df \in Tables
    /\ preprocessor = AutoPreprocessor("price")
    /\ result = NoResult

NextEncode ==
    \/ EncodeCategorical(df, TRUE)
    \/ \E input \in {df, Shifted(df)} : EncodeCategorical(input, FALSE)

SpecEncode == InitEncode /\ [][NextEncode]_vars

\* AutoPreprocessor.detect_problem_type(series)
ClassifyTargetInPreprocessor ==
    /\ result' = [op |-> "AutoPreprocessor.detect_problem_type",
                  value |-> AutoPreprocessor_detect_problem_type(series)]
    /\ UNCHANGED <<api_side, series, df, preprocessor>>

\* is_id_column(series.name, series)
ClassifyId ==
    /\ result' = [op |-> "is_id_column", returned |-> is_id_column(series.name, series)]
    /\ UNCHANGED <<api_side, series, df, preprocessor>>

InitColumn ==
    /\ InitApi
    /\ series \in SeriesSet
    /\ df = NoTable
    /\ preprocessor = AutoPreprocessor("")
    /\ result = NoResult

NextColumn ==
    \/ ClassifyTarget
    \/ ClassifyTargetInPreprocessor
    \/ ClassifyId
    \/ \E threshold \in Thresholds : ClassifyCardinality(threshold)

SpecColumn == InitColumn /\ [][NextColumn]_vars

-----------------------------------------------------------------------------
(* Model cache *)

\* The MAX_CACHED_MODELS most recently used job ids
RecentlyUsed(order) ==
    {order[i] : i \in {k \in 1..Len(order) : k > Len(order) - MAX_CACHED_MODELS}}

\* C1: after any sequence of predictions the model cache holds at most
\* MAX_CACHED_MODELS entries.
C1_CacheWithinCapacity == Cardinality(DOMAIN model_cache) <= MAX_CACHED_MODELS

\* C2: once more than MAX_CACHED_MODELS distinct ids were loaded, the least
\* recently used ones are evicted: a get-or-load invokes the loader exactly
\* when its id is not among the MAX_CACHED_MODELS most recently used, and
\* the cache holds the most recently used ids only.
C2_LeastRecentlyUsedEvicted ==
    [][\A job_id \in CacheJobs :
          make_prediction(job_id, GoodFeatures, TRUE)
          => /\ trace'.loader_invoked <=> job_id \notin RecentlyUsed(used)
             /\ DOMAIN model_cache' = RecentlyUsed(used')]_vars

-----------------------------------------------------------------------------
(* Prediction requests *)

\* The job of the last request passed the checks on the job itself.
Servable ==
    /\ request.job_id \in DOMAIN jobs
    /\ jobs[request.job_id].deployed
    /\ jobs[request.job_id].onnx_model_path # ""

Contract == jobs[request.job_id].preprocessing_info

\* A Preprocessing Contract exists for the job of the last request.
HasContract ==
    /\ ~Contract.is_none
    /\ "feature_columns" \in Contract.keys
    /\ Len(Contract.feature_columns) > 0

\* The names of Contract.feature_columns that are not keys of raw_features
MissingNames ==
    {Contract.feature_columns[i] : i \in 1..Len(Contract.feature_columns)}
        \ DOMAIN request.features

SeqToSet(s) == {s[i] : i \in 1..Len(s)}

C5_AllMissingNames ==
    (Servable /\ HasContract /\ MissingNames # {}) =>
        /\ response.detail = "Missing required features"
        /\ SeqToSet(response.missing) = MissingNames
        /\ Len(response.missing) = Cardinality(MissingNames)

\* C5 witness: two names were missing and both were reported.
C5_Witness ==
    /\ Servable /\ HasContract
    /\ Cardinality(MissingNames) = 2
    /\ Len(response.missing) = 2

\* The job's model handle was obtained for the last request.
GotSession == request.job_id \in DOMAIN model_cache

\* The request passed the checks that come before the transform.
Transformed == Servable /\ HasContract /\ MissingNames = {} /\ GotSession

FeatureColumnSet == SeqToSet(Contract.feature_columns)

\* The feature columns with a categorical mapping
CategoricalColumns == FeatureColumnSet \cap DOMAIN Contract.categorical_mappings

\* The code of the raw value of a categorical column: its mapped code, or
\* -1 when its string form is not a key of the mapping
ExpectedCode(col) ==
    LET text == PyStr(request.features[col])
        mapping == Contract.categorical_mappings[col]
    IN IF text \in DOMAIN mapping THEN mapping[text] ELSE -1

Coercible(value) == IsNumber(value) \/ CanFloat(value)

\* The numeric feature columns whose raw value is no number
BadNumeric ==
    {col \in FeatureColumnSet \ CategoricalColumns : ~Coercible(request.features[col])}

\* The encoded value of a feature column
ExpectedValue(col) ==
    IF col \in CategoricalColumns THEN ExpectedCode(col)
    ELSE IF IsNumber(request.features[col]) THEN request.features[col].n
    ELSE PyFloat(request.features[col])

\* C6: a categorical value that is not a key of its mapping is encoded as
\* -1 and raises no error, a value that is a key is encoded as its code;
\* the prediction proceeds.
C6_UnknownCategoryIsMinusOne ==
    Transformed =>
        /\ response.column \notin CategoricalColumns
        /\ BadNumeric = {} =>
              /\ response.status = 200
              /\ trace.executed
              /\ \A i \in 1..Len(Contract.feature_columns) :
                    Contract.feature_columns[i] \in CategoricalColumns
                    => trace.row[i] = ExpectedCode(Contract.feature_columns[i])

\* C6 witness: "Chicago" was sent for city, whose mapping knows NYC and LA;
\* the prediction succeeded with city encoded as -1.
C6_Witness ==
    /\ request.job_id = "j1"
    /\ DOMAIN request.features = {"age", "city"}
    /\ request.features["city"] = Str("Chicago")
    /\ response.status = 200
    /\ trace.row[2] = -1

\* C7: the assembled vector has one element per feature column, the i-th
\* being the encoded value of feature_columns[i], whatever the order of
\* feature_columns and whatever other keys raw_features has.
C7_VectorFollowsFeatureColumns ==
    (Servable /\ trace.executed) =>
        /\ Len(trace.row) = Len(Contract.feature_columns)
        /\ \A i \in 1..Len(Contract.feature_columns) :
              trace.row[i] = ExpectedValue(Contract.feature_columns[i])

\* C7 witness: a vector for feature_columns <<"city", "age">>, which is not
\* in alphabetical order, from a request with an extra key.
C7_Witness ==
    /\ request.job_id = "j2"
    /\ "extra" \in DOMAIN request.features
    /\ trace.executed
    /\ trace.row = <<1, 30>>

\* C8: a numeric feature whose raw value cannot be coerced to a number
\* fails the request with an error naming the column and the value, and
\* the model is not executed.
C8_InvalidFeatureValue ==
    (Transformed /\ BadNumeric # {}) =>
        /\ response.status = 400
        /\ response.detail = "Cannot convert to number"
        /\ response.column \in BadNumeric
        /\ response.value = request.features[response.column]
        /\ ~trace.executed

\* C8 witness: "abc" was sent for the numeric feature age; the model was
\* loaded but not executed.
C8_Witness ==
    /\ Transformed
    /\ request.features["age"] = Str("abc")
    /\ response.column = "age"
    /\ response.value = Str("abc")
    /\ trace.loader_invoked
    /\ ~trace.executed

\* C9: for a classification model whose Contract has a target_mapping, the
\* returned prediction is the original label of the model's predicted code.
C9_OriginalLabelReturned ==
    (Servable /\ trace.executed
        /\ jobs[request.job_id].problem_type = "classification"
        /\ "target_mapping" \in Contract.keys) =>
        response.prediction =
            Str(Contract.target_mapping[
                    ToString(SessionRun(model_cache[request.job_id].session,
                                        [row |-> trace.row]).label)])

\* C10: a prediction repeated with the same raw_features, with the model
\* cached since the earlier call, returns the same prediction, probability
\* and probabilities as the earlier call.
C10_RepeatedPredictionSame ==
    (prev.request = request /\ prev.cached) =>
        /\ response.prediction = prev.response.prediction
        /\ response.has_probability = prev.response.has_probability
        /\ response.probability = prev.response.probability
        /\ response.probabilities = prev.response.probabilities

\* C10 witness: the same request was answered twice, the second time from
\* the cache, while the cache also held another model.
C10_Witness ==
    /\ prev.request = request
    /\ prev.cached
    /\ prev.response.status = 200
    /\ response.status = 200
    /\ response.has_probability
    /\ ~trace.loader_invoked
    /\ Len(used) > 1

\* C11: a successful prediction leaves the jobs table (and with it the
\* Contract), the caller's raw_features and every cache entry that was
\* there unchanged; the only change it may make is to add the handle of
\* the requested model to the cache.
C11_SuccessfulPredictFrame ==
    [][response'.status = 200 =>
          /\ jobs' = jobs
          /\ raw_features' = request'.features
          /\ \A k \in DOMAIN model_cache :
                k \in DOMAIN model_cache' /\ model_cache'[k] = model_cache[k]
          /\ DOMAIN model_cache' \subseteq DOMAIN model_cache \cup {request'.job_id}]_vars

\* C11 witness: a prediction for "j2", whose city is categorical, succeeded
\* and loaded the model while the cache held the model of "j1"; the
\* caller's dictionary still holds the city's name, not its code.
C11_Witness ==
    /\ request.job_id = "j2"
    /\ response.status = 200
    /\ trace.loader_invoked
    /\ DOMAIN model_cache = {"j1", "j2"}
    /\ trace.row[1] = 0
    /\ raw_features = request.features
    /\ raw_features["city"] = Str("LA")

-----------------------------------------------------------------------------
(* The life of a job *)

\* The step is a prediction request that did something.
PredictStep ==
    <<request, response, trace, model_cache, used>>'
        # <<request, response, trace, model_cache, used>>

DeployStep == api' # api /\ api'.op = "deploy"

-----------------------------------------------------------------------------
(* The Contract at inference time *)

\* The Contract of the last request's job breaks a structural invariant:
\* no feature columns, or a categorical mapping for a column that is not
\* a feature column.
MalformedContract ==
    \/ Contract.is_none
    \/ "feature_columns" \notin Contract.keys
    \/ Len(Contract.feature_columns) = 0
    \/ ~(DOMAIN Contract.categorical_mappings \subseteq SeqToSet(Contract.feature_columns))

\* C14: a prediction for a job whose Contract has no feature columns, or
\* has a categorical mapping for a column that is not a feature column,
\* is refused: the model is not executed.
C14_MalformedContractRejected ==
    (Servable /\ MalformedContract) =>
        /\ ~trace.executed
        /\ response.status # 200

-----------------------------------------------------------------------------
(* Column classifiers *)

\* The rows of the column, and the distinct values among the present ones
Total == Len(series.values)
Distinct == Cardinality({series.values[i] : i \in 1..Len(series.values)} \ {NoneV})

NumericColumn == series.dtype \in {"int64", "float64", "bool"}

\* Every present value is a whole number.
AllWhole == \A i \in 1..Len(series.values) : series.values[i].t \in {"num", "none"}

\* The rules of detect_problem_type, in order
ExpectedProblemType ==
    IF Total = 0 THEN "classification"
    ELSE IF ~NumericColumn THEN "classification"
    ELSE IF AllWhole /\ Distinct <= 10 THEN "classification"
    ELSE IF Distinct < 20 /\ 20 * Distinct < Total THEN "classification"
    ELSE "regression"

\* C17: detect_problem_type applies its rules in order: empty target,
\* non-numeric target, whole numbers with at most 10 distinct values, fewer
\* than 20 distinct values with distinct/total below 0.05 are
\* classification, anything else regression; so [0,1,0,1,1] is
\* classification, [35.5,42.1,38.7] and [3.14,3.14,3.14] are regression.
C17_ProblemTypeRules ==
    result.op = "detect_problem_type" =>
        /\ result.value = ExpectedProblemType
        /\ series.values = <<Num(0), Num(1), Num(0), Num(1), Num(1)>>
              => result.value = "classification"
        /\ series.values = <<Frac(35, "5"), Frac(42, "1"), Frac(38, "7")>>
              => result.value = "regression"
        /\ series.values = <<Frac(3, "14"), Frac(3, "14"), Frac(3, "14")>>
              => result.value = "regression"

\* C17 witness: the all-identical fractional target was classified as a
\* regression target.
C17_Witness ==
    /\ series.values = <<Frac(3, "14"), Frac(3, "14"), Frac(3, "14")>>
    /\ result.op = "detect_problem_type"
    /\ result.value = "regression"

\* C19: is_high_cardinality_categorical returns true exactly for a
\* non-numeric column whose distinct/total is strictly greater than the
\* threshold, false at the threshold, and false for every numeric column.
C19_HighCardinalityStrict ==
    result.op = "is_high_cardinality_categorical" =>
        /\ result.returned = Returned(TRUE) <=>
              /\ ~NumericColumn
              /\ Total > 0
              /\ Distinct * result.threshold.den > result.threshold.num * Total
        /\ NumericColumn => result.returned = Returned(FALSE)
        /\ (~NumericColumn /\ Total > 0
              /\ Distinct * result.threshold.den = result.threshold.num * Total)
              => result.returned = Returned(FALSE)

\* C19 witness: a text column of 10 rows with 5 distinct values was not
\* flagged at the threshold 0.5.
C19_Witness ==
    /\ series.dtype = "object"
    /\ Total = 10
    /\ Distinct = 5
    /\ result.op = "is_high_cardinality_categorical"
    /\ result.threshold = Threshold(1, 2)
    /\ result.returned = Returned(FALSE)

-----------------------------------------------------------------------------
(* The preprocessor *)

TargetSeries == Column(df, preprocessor.target_column)

\* What makes a feature useless, found in the target column
TargetLooksUseless ==
    /\ preprocessor.target_column \in ColumnSet(df)
    /\ \/ nunique(TargetSeries) <= 1
       \/ MatchesIdPattern(preprocessor.target_column)
       \/ TargetSeries.dtype = "int64"
            /\ TargetSeries.values = [i \in 1..Len(TargetSeries.values) |-> Num(i)]
       \/ \E i \in 1..Len(df) :
             /\ df[i].name # preprocessor.target_column
             /\ df[i].values = TargetSeries.values
       \/ TargetSeries.dtype = "object"
            /\ 2 * nunique(TargetSeries) > Len(TargetSeries.values)

\* C16: the list detect_useless_columns returns never holds the target
\* column, whether the target is constant, id-like by name or by values, a
\* duplicate of a feature or a text column of high cardinality.
C16_TargetNeverUseless ==
    (result.op = "detect_useless_columns" /\ result.returned.raised = "") =>
        /\ \A i \in 1..Len(result.returned.value) :
              result.returned.value[i] # preprocessor.target_column
        /\ \A i \in 1..Len(preprocessor.dropped_columns) :
              preprocessor.dropped_columns[i] # preprocessor.target_column

\* C16 witness: a target that is the duplicate of a feature was kept out
\* of a list that holds another column.
C16_Witness ==
    /\ result.op = "detect_useless_columns"
    /\ result.returned.raised = ""
    /\ TargetLooksUseless
    /\ \E i \in 1..Len(df) :
          /\ df[i].name # preprocessor.target_column
          /\ df[i].values = TargetSeries.values
    /\ Len(result.returned.value) > 0

\* The text of a value of an object column
TextOf(v) == IF v = NoneV THEN "nan" ELSE v.s

\* The object columns of the table handed to encode_categorical that have
\* an encoder
Encoded == {i \in 1..Len(result.input) :
               /\ result.input[i].dtype = "object"
               /\ result.input[i].name \in DOMAIN preprocessor.label_encoders}

Knows(col, text) ==
    \E k \in 1..Len(preprocessor.label_encoders[col]) :
        preprocessor.label_encoders[col][k] = text

\* C15: encode_categorical with fit=true and then with fit=false on the
\* same data gives the same codes; with fit=false a value the encoder has
\* not seen becomes -1 and a table is returned.
C15_EncodeRoundTrip ==
    /\ [](result.op = "encode_categorical" /\ ~result.fit =>
            /\ Len(result.returned) = Len(result.input)
            /\ \A i \in Encoded : \A k \in 1..Len(result.input[i].values) :
                  ~Knows(result.input[i].name, TextOf(result.input[i].values[k]))
                      => result.returned[i].values[k] = Num(-1))
    /\ [][(/\ result.op = "encode_categorical" /\ result.fit
           /\ result'.op = "encode_categorical" /\ ~result'.fit
           /\ result'.input = result.input)
              => result'.returned = result.returned]_vars

\* C15 witness: the encoders fitted on a table were applied to a table
\* with a text they know and a text they do not know.
C15_Witness ==
    /\ result.op = "encode_categorical"
    /\ ~result.fit
    /\ result.input # df
    /\ \E i \in Encoded : \E k, m \in 1..Len(result.input[i].values) :
          /\ result.returned[i].values[k] = Num(-1)
          /\ result.returned[i].values[m] # Num(-1)
          /\ Knows(result.input[i].name, TextOf(result.input[i].values[m]))

\* The columns other than the target that detect_useless_columns leaves
Remaining ==
    {c \in ColumnSet(df) \ {preprocessor.target_column} :
        \A i \in 1..Len(preprocessor.dropped_columns) : preprocessor.dropped_columns[i] # c}

\* C18: preprocess raises when the target column is not in the table and
\* when no feature column remains once the useless columns are dropped; it
\* never returns with an empty feature_columns list.
C18_PreprocessNeedsFeatures ==
    result.op = "preprocess" =>
        /\ preprocessor.target_column \notin ColumnSet(df) => result.returned.raised # ""
        /\ result.returned.raised = "" =>
              /\ Remaining # {}
              /\ preprocessor.feature_columns # <<>>

-----------------------------------------------------------------------------
(* Deleting a job with its data *)

\* The step is a delete request.
DeleteStep == api' # api /\ api'.op = "delete"

\* C20: once delete_job has succeeded with delete_data=true the job's
\* record is gone and so is everything stored for it: the pickle model, the
\* ONNX model, the EDA report, the training report, the dataset files and
\* the dataset's metadata record.
C20_DeleteRemovesEverything ==
    [][(DeleteStep /\ api'.status = 200 /\ api'.flag) =>
          /\ api'.job_id \notin DOMAIN jobs'
          /\ S3Object(BucketModels, ModelKey(api'.job_id)) \notin s3'
          /\ S3Object(BucketModels, OnnxKey(api'.job_id)) \notin s3'
          /\ S3Object(BucketReports, EdaReportKey(api'.job_id)) \notin s3'
          /\ S3Object(BucketReports, TrainingReportKey(api'.job_id)) \notin s3'
          /\ DatasetFiles(jobs[api'.job_id].dataset_id) \cap s3' = {}
          /\ jobs[api'.job_id].dataset_id \notin datasets']_vars

-----------------------------------------------------------------------------
(* Missing values, encoders, problem type *)

\* The value in tenths of a number
InTenths(v) == IF v.t = "frac" THEN 10 * v.n + 5 ELSE 10 * v.n

\* v is a median of the present values of column i of the table: at most
\* half of them are below it and at most half above it
IsMedianOf(v, i) ==
    LET held == {k \in 1..Len(df[i].values) : df[i].values[k] # NoneV}
    IN  /\ v # NoneV
        /\ 2 * Cardinality({k \in held : InTenths(df[i].values[k]) < InTenths(v)})
              <= Cardinality(held)
        /\ 2 * Cardinality({k \in held : InTenths(df[i].values[k]) > InTenths(v)})
              <= Cardinality(held)

\* v is a most frequent present value of column i of the table
IsModeOf(v, i) ==
    LET times(w) == Cardinality({k \in 1..Len(df[i].values) : df[i].values[k] = w})
    IN  /\ times(v) > 0
        /\ \A k \in 1..Len(df[i].values) :
              df[i].values[k] # NoneV => times(df[i].values[k]) <= times(v)

\* C22: the table handle_missing_values returns has no absent value in a
\* numeric or text column: a numeric gap holds the median of the column's
\* present values, a text gap the column's mode, and a text column without
\* a present value holds "Unknown" everywhere.
C22_NoAbsentValueLeft ==
    result.op = "handle_missing_values" =>
        \A i \in 1..Len(df) : \A k \in 1..Len(df[i].values) :
            LET before == df[i].values[k]
                after == result.returned[i].values[k]
            IN  /\ after # NoneV
                /\ before # NoneV => after = before
                /\ (before = NoneV /\ df[i].dtype \in {"int64", "float64"})
                      => IsMedianOf(after, i)
                /\ (before = NoneV /\ df[i].dtype = "object")
                      => IF \A m \in 1..Len(df[i].values) : df[i].values[m] = NoneV
                         THEN after = Str("Unknown")
                         ELSE IsModeOf(after, i)

\* The object columns of the table encode_categorical was fitted on
Fitted == {i \in 1..Len(result.input) : result.input[i].dtype = "object"}

\* The row where the value of row k of column i first appears
FirstSeen(i, k) ==
    CHOOSE j \in 1..k : /\ result.input[i].values[j] = result.input[i].values[k]
                        /\ \A m \in 1..(j - 1) :
                              result.input[i].values[m] # result.input[i].values[k]

\* The codes of column i are one per distinct value and fill 0..k-1.
DenseCodes(i) ==
    LET rows == 1..Len(result.input[i].values)
        distinct == {result.input[i].values[k] : k \in rows}
    IN  /\ \A k, m \in rows :
              result.input[i].values[k] = result.input[i].values[m]
                  <=> result.returned[i].values[k] = result.returned[i].values[m]
        /\ {result.returned[i].values[k] : k \in rows}
              = {Num(c) : c \in 0..(Cardinality(distinct) - 1)}

\* C23 as stated: a fitted Label Encoder gives each distinct value a unique
\* code of 0..k-1, in the order in which the values first appear in the
\* column.
C23_CodesInFirstSeenOrder ==
    (result.op = "encode_categorical" /\ result.fit) =>
        \A i \in Fitted :
            /\ DenseCodes(i)
            /\ \A k, m \in 1..Len(result.input[i].values) :
                  FirstSeen(i, k) < FirstSeen(i, m)
                      => result.returned[i].values[k].n < result.returned[i].values[m].n

\* C23 amended: a fitted Label Encoder gives each distinct value a unique
\* code of 0..k-1, in the sorted order of the values' texts (an absent
\* value being the text 'nan').
C23_CodesInSortedOrder ==
    (result.op = "encode_categorical" /\ result.fit) =>
        \A i \in Fitted :
            /\ DenseCodes(i)
            /\ \A k, m \in 1..Len(result.input[i].values) :
                  Rank(TextOf(result.input[i].values[k])) < Rank(TextOf(result.input[i].values[m]))
                      => result.returned[i].values[k].n < result.returned[i].values[m].n

\* C23 witness: a column that starts with "B" and goes on with "A" was
\* fitted: "B" got the code 1 and "A" the code 0.
C23_Witness ==
    /\ result.op = "encode_categorical"
    /\ result.fit
    /\ \E i \in Fitted :
          /\ Len(result.input[i].values) >= 2
          /\ result.input[i].values[1] = Str("B")
          /\ result.input[i].values[2] = Str("A")
          /\ result.returned[i].values[1] = Num(1)
          /\ result.returned[i].values[2] = Num(0)

\* C24: the problem type AutoPreprocessor computes for a target column is
\* the one the shared detect_problem_type of the training utils gives.
C24_PreprocessorDelegates ==
    result.op = "AutoPreprocessor.detect_problem_type" =>
        result.value = detect_problem_type(series)

\* C30: is_id_column and is_high_cardinality_categorical return a boolean
\* and never raise, for a text column without rows as for any other.
C30_ClassifiersNeverRaise ==
    result.op \in {"is_id_column", "is_high_cardinality_categorical"} =>
        /\ result.returned.raised = ""
        /\ result.returned.value \in BOOLEAN

\* What the training-time pipeline makes of the feature columns of a table
\* with the fitted preprocessor
TrainingPipeline(data) ==
    encode_categorical(preprocessor,
                       handle_missing_values(SelectColumns(data, preprocessor.feature_columns)),
                       FALSE).df

\* C25: for every row, rows with absent values included, prepare_input of
\* the standalone predictor gives the encoded values that
\* handle_missing_values followed by encode_categorical with the fitted
\* encoders gives.
C25_PrepareInputReplaysTraining ==
    (result.op = "prepare_input" /\ result.returned.raised = "") =>
        result.returned.value = TrainingPipeline(result.input)

-----------------------------------------------------------------------------
(* The cache of presigned download URLs *)

\* C26: a call that does not raise returns the cached URL of its (bucket, key)
\* exactly when the time it read is strictly before the entry's cache expiry,
\* and that URL is then the stored one and still short of its real expiration;
\* otherwise it returns a URL signed no earlier than the call. No entry is
\* kept for more than 80% of its URL's expiration.
C26_CachedOnlyBeforeExpiry ==
    LET ret == urls.returned
        live == /\ ret.cache_key \in DOMAIN ret.seen
                /\ ret.now < ret.seen[ret.cache_key].expiry
    IN  /\ (ret.caller # "" /\ ret.raised = "") =>
              /\ ret.hit <=> live
              /\ ret.hit =>
                    /\ ret.url = ret.seen[ret.cache_key].url
                    /\ ret.now < ret.url.signed_at + ret.url.expiration
              /\ ~ret.hit =>
                    /\ ret.url.signed_at >= ret.now
                    /\ ret.cache[ret.cache_key].url = ret.url
        /\ \A k \in DOMAIN urls.cache :
              10 * (urls.cache[k].expiry - urls.cache[k].url.signed_at)
                  <= 8 * urls.cache[k].url.expiration

\* A URL is served from the cache at the last second of its window, by a
\* caller other than the one that stored it, while the other caller waits.
C26_Witness ==
    LET ret == urls.returned
    IN  /\ ret.caller # "" /\ ret.hit
        /\ ret.now + 1 = ret.seen[ret.cache_key].expiry
        /\ \E c \in Callers \ {ret.caller} : urls.callers[c].pc = "called"

\* C27: when a call has ended, the cache it leaves holds no entry whose
\* expiry was at or before the time the call read, and every entry it found
\* that had not expired by then is still there, unchanged.
C27_LazyCleanup ==
    LET ret == urls.returned
    IN  ret.caller # "" =>
            /\ \A k \in DOMAIN ret.cache : ret.cache[k].expiry > ret.now
            /\ \A k \in DOMAIN ret.seen :
                  ret.seen[k].expiry > ret.now =>
                      k \in DOMAIN ret.cache /\ ret.cache[k] = ret.seen[k]

\* A call finds one entry exactly at its expiry and one a second short of it.
C27_Witness ==
    LET ret == urls.returned
    IN  /\ ret.caller # ""
        /\ \E k \in DOMAIN ret.seen : ret.seen[k].expiry = ret.now /\ k \notin DOMAIN ret.cache
        /\ \E k \in DOMAIN ret.seen : ret.seen[k].expiry = ret.now + 1 /\ k \in DOMAIN ret.cache

-----------------------------------------------------------------------------
(* A training run *)

\* C21: when start_training has answered 404, 400 or 500, the job store holds
\* no record created by that request, and every pending record of a request
\* that has been answered has a batch job submitted for it.
C21_NoRecordOnError ==
    run.api = "idle" =>
        /\ run.response.status_code \in {400, 404, 500} => run.job_id \notin DOMAIN jobs
        /\ \A j \in TrainingJobIds \cap DOMAIN jobs :
              jobs[j].status = "pending" => j \in DOMAIN run.containers

\* C28: a training job whose container has started and ended has status
\* completed or failed in the job store, and a failed one has an
\* error_message: no failure leaves it pending or running.
C28_EndedRunIsCompletedOrFailed ==
    \A j \in DOMAIN run.containers :
        run.containers[j].pc = "exited" =>
            /\ jobs[j].status \in {"completed", "failed"}
            /\ jobs[j].status = "failed" => jobs[j].error_message # ""

StatusRank(status) ==
    IF status = "pending" THEN 0 ELSE IF status = "running" THEN 1 ELSE 2

\* C29: in every step, under every interleaving of the API's writes with the
\* container's, a job's status does not move back, and a completed or failed
\* status is left as it is.
C29_StatusMovesForward ==
    [][\A j \in TrainingJobIds \cap DOMAIN jobs :
          /\ StatusRank(jobs'[j].status) >= StatusRank(jobs[j].status)
          /\ jobs[j].status \in {"completed", "failed"} => jobs'[j].status = jobs[j].status]_vars

====
